---- MODULE Spec2Model ----
(***************************************************************************)
(* The request-processing pipeline of runcals_ArticleGenerator: the        *)
(* middleware stack assembled in app/main.py (security headers, rate       *)
(* limiter, CORS, request logger, API-key authenticator) around the route  *)
(* handler, with the rate limiter's sliding-window state; and the          *)
(* connection manager of app/database.py, which the application's          *)
(* lifespan() starts before the first request is served.                   *)
(*                                                                         *)
(* Strings the code inspects character by character (header names, header  *)
(* values, the secret) are sequences of one-character strings, so that     *)
(* str.strip() and str.lower() are computed, not assumed.  Paths are only  *)
(* compared for equality and stay plain strings.                           *)
(***************************************************************************)
EXTENDS Integers, Sequences, FiniteSets, TLC

VARIABLES
    now,                  \* the latest reading of the limiter's clock, time()
    settings,             \* app.config.settings (immutable after start-up)
    requests_per_minute,  \* RateLimitMiddleware.requests_per_minute
    requests_per_hour,    \* RateLimitMiddleware.requests_per_hour
    last_cleanup,         \* RateLimitMiddleware.last_cleanup
    req,                  \* the requests being served, one record per slot
    admittedAt,           \* history: per client, the instants of its admitted requests
    arrivals,             \* history: number of requests received so far
    engine,               \* Database.engine
    async_session_maker,  \* Database.async_session_maker
    call,                 \* the activation of Database.connect, with its history
    got,                  \* what the last call of Database.get_session gave
    lifespan              \* where the application's lifespan() stands

vars == <<now, settings, requests_per_minute, requests_per_hour, last_cleanup,
          req, admittedAt, arrivals,
          engine, async_session_maker, call, got, lifespan>>

limiterState == <<requests_per_minute, requests_per_hour, last_cleanup>>

\* the module-level Database instance and the application around it
dbState == <<engine, async_session_maker, call, got, lifespan>>

-----------------------------------------------------------------------------
(* Bounds of the model *)

\* total number of requests received in one behaviour
MaxRequests == 4

\* request slots: requests served concurrently
Slots == {"s1", "s2"}

\* the instants the clock can show: 0 and 60 are one minute window apart, 1 and
\* 60 are not; 0 and 3600 are one hour window apart, 1 and 3600 are not; 300 is
\* one sweep interval after start-up
Instants == {0, 1, 60, 300, 3600}

-----------------------------------------------------------------------------
(* Python values *)

None == <<"None">>

\* truth value of an Optional[str]: None and "" are false
Truthy(v) == v # None /\ v # <<>>

\* characters str.strip() removes
Whitespace == {" ", "\t", "\n"}

RECURSIVE LStrip(_)
LStrip(s) ==
    IF s # <<>> /\ Head(s) \in Whitespace THEN LStrip(Tail(s)) ELSE s

RECURSIVE RStrip(_)
RStrip(s) ==
    IF s # <<>> /\ s[Len(s)] \in Whitespace
    THEN RStrip(SubSeq(s, 1, Len(s) - 1))
    ELSE s

\* str.strip()
Strip(s) == RStrip(LStrip(s))

\* the lower-case form of one character
LowerChar(c) ==
    CASE c = "A" -> "a"
      [] c = "B" -> "b"
      [] c = "C" -> "c"
      [] c = "D" -> "d"
      [] c = "E" -> "e"
      [] c = "F" -> "f"
      [] c = "G" -> "g"
      [] c = "H" -> "h"
      [] c = "I" -> "i"
      [] c = "J" -> "j"
      [] c = "K" -> "k"
      [] c = "L" -> "l"
      [] c = "M" -> "m"
      [] c = "N" -> "n"
      [] c = "O" -> "o"
      [] c = "P" -> "p"
      [] c = "Q" -> "q"
      [] c = "R" -> "r"
      [] c = "S" -> "s"
      [] c = "T" -> "t"
      [] c = "U" -> "u"
      [] c = "V" -> "v"
      [] c = "W" -> "w"
      [] c = "X" -> "x"
      [] c = "Y" -> "y"
      [] c = "Z" -> "z"
      [] OTHER -> c

\* the string as it is: the case is not folded
LowerIdentity(s) == s

\* str.lower()
Lower(s) == [i \in 1..Len(s) |-> LowerChar(s[i])]

\* [ts for ts in s if ts >= cutoff]: a timestamp exactly one window old is kept
RECURSIVE SelectTsInclusive(_, _)
SelectTsInclusive(s, cutoff) ==
    IF s = <<>> THEN <<>>
    ELSE IF Head(s) >= cutoff
         THEN <<Head(s)>> \o SelectTsInclusive(Tail(s), cutoff)
         ELSE SelectTsInclusive(Tail(s), cutoff)

\* [ts for ts in s if ts > cutoff]
RECURSIVE SelectTs(_, _)
SelectTs(s, cutoff) ==
    IF s = <<>> THEN <<>>
    ELSE IF Head(s) > cutoff
         THEN <<Head(s)>> \o SelectTs(Tail(s), cutoff)
         ELSE SelectTs(Tail(s), cutoff)

\* a dict with key k set to v
DictSet(d, k, v) == [x \in DOMAIN d \cup {k} |-> IF x = k THEN v ELSE d[x]]

\* defaultdict(list).__getitem__: the stored list, [] for a missing key
DictGet(d, k) == IF k \in DOMAIN d THEN d[k] ELSE <<>>

EmptyDict == [x \in {} |-> <<>>]

\* defaultdict(list).__getitem__ as a statement: a missing key is inserted with []
DictTouch(d, k) == IF k \in DOMAIN d THEN d ELSE DictSet(d, k, <<>>)

\* str(n) for an int
RECURSIVE Digits(_)
Digits(n) ==
    LET d == <<"0","1","2","3","4","5","6","7","8","9">>[(n % 10) + 1]
    IN  IF n < 10 THEN <<d>> ELSE Digits(n \div 10) \o <<d>>

IntToStr(n) == IF n < 0 THEN <<"-">> \o Digits(0 - n) ELSE Digits(n)

\* s.split(",")[0]
RECURSIVE SplitFirst(_)
SplitFirst(s) ==
    IF s = <<>> \/ Head(s) = "," THEN <<>>
    ELSE <<Head(s)>> \o SplitFirst(Tail(s))

-----------------------------------------------------------------------------
(* Header names and values that occur in the code *)

X_API_Key == <<"X","-","A","P","I","-","K","e","y">>
x_api_key == <<"x","-","a","p","i","-","k","e","y">>
X_Forwarded_For == <<"X","-","F","o","r","w","a","r","d","e","d","-","F","o","r">>
X_Real_IP == <<"X","-","R","e","a","l","-","I","P">>
unknown == <<"u","n","k","n","o","w","n">>

\* request.headers.get(name): the value of the first header whose name equals
\* name without regard to case, None when there is none
HeadersGet(headers, name) ==
    LET wanted == Lower(name)
        hits == {i \in 1..Len(headers) : Lower(headers[i].name) = wanted}
    IN  IF hits = {} THEN None
        ELSE headers[CHOOSE i \in hits : \A j \in hits : i <= j].value

-----------------------------------------------------------------------------
(* The application: app/main.py *)

\* the authenticator added after the limiter, which puts it outside the limiter
AddMiddlewareOrderAuthLate ==
    <<"LoggingMiddleware", "CORSMiddleware", "RateLimitMiddleware",
      "APIKeyMiddleware", "SecurityHeadersMiddleware">>

\* the add_middleware calls in the order main.py makes them
AddMiddlewareOrder ==
    <<"APIKeyMiddleware", "LoggingMiddleware", "CORSMiddleware",
      "RateLimitMiddleware", "SecurityHeadersMiddleware">>

Reverse(s) == [i \in 1..Len(s) |-> s[Len(s) + 1 - i]]

\* the middleware run in the order they were added
MiddlewareStackAsAdded == AddMiddlewareOrder \o <<"router">>

\* add_middleware puts each middleware in front of those added before it: the
\* last one added is the outermost; the router is wrapped by all of them
MiddlewareStack == Reverse(AddMiddlewareOrder) \o <<"router">>

\* the paths of the model that any(path.startswith(p) for p in exclude_paths)
\* lets through: all of them, as every path starts with "/"
exclude_pathsByPrefix ==
    {"/", "/docs", "/redoc", "/openapi.json", "/api/v1/health",
     "/docs/x", "/api/v1/health/", "/api/v1/articles"}

\* exclude_paths handed to APIKeyMiddleware by main.py
exclude_paths == {"/", "/docs", "/redoc", "/openapi.json", "/api/v1/health"}

\* the list without the documentation pages
RateLimitSkipPathsShort == {"/api/v1/health", "/"}

\* the paths RateLimitMiddleware.dispatch skips
RateLimitSkipPaths == {"/api/v1/health", "/docs", "/redoc", "/openapi.json", "/"}

cleanup_interval == 300
MinuteWindow == 60
\* a window of 36 seconds where 3600 was meant
HourWindowShort == MinuteWindow - 24
HourWindow == 3600

HTTP_401_UNAUTHORIZED == 401
HTTP_403_FORBIDDEN == 403
HTTP_429_TOO_MANY_REQUESTS == 429
HTTP_500_INTERNAL_SERVER_ERROR == 500

-----------------------------------------------------------------------------
(* Requests *)

NoHeaders == [x \in {} |-> <<>>]

IdleRequest ==
    [pc |-> "idle", depth |-> 0, path |-> "", headers |-> <<>>, client |-> None,
     entered |-> <<>>, exited |-> <<>>,
     result |-> "none", status |-> 0, resp_headers |-> NoHeaders, detail |-> "",
     branch |-> "none", client_ip |-> None, at |-> 0, nth |-> 0, minute_requests |-> <<>>, hour_requests |-> <<>>,
     log |-> <<>>]

\* the layer a request is about to enter (pc = "in") or to return into (pc = "out")
Layer(s) == MiddlewareStack[req[s].depth]

AtLayer(s, pc, layer) ==
    /\ req[s].pc = pc
    /\ Layer(s) = layer

\* call_next(request): the request goes one layer inwards
Inward(r, layer) ==
    [r EXCEPT !.depth = @ + 1, !.entered = Append(@, layer)]

\* a layer hands its result (a response or a raised exception) to its caller
Outward(r, layer) ==
    [r EXCEPT !.pc = IF r.depth = 1 THEN "done" ELSE "out",
              !.depth = @ - 1,
              !.exited = Append(@, layer)]

\* a layer answers or raises without calling call_next
ShortCircuit(r, layer) == Outward([r EXCEPT !.entered = Append(@, layer)], layer)

SetHeader(r, name, value) ==
    [r EXCEPT !.resp_headers = DictSet(@, name, value)]

-----------------------------------------------------------------------------
(* SecurityHeadersMiddleware: app/middleware/security.py *)

SecurityHeaders ==
    {"X-Content-Type-Options", "X-Frame-Options", "X-XSS-Protection",
     "Strict-Transport-Security", "Referrer-Policy"}

\* the literal header values, each kept in one piece
SecurityHeaderValue ==
    [h \in SecurityHeaders |->
        CASE h = "X-Content-Type-Options" -> <<"nosniff">>
          [] h = "X-Frame-Options" -> <<"DENY">>
          [] h = "X-XSS-Protection" -> <<"1; mode=block">>
          [] h = "Strict-Transport-Security" -> <<"max-age=31536000; includeSubDomains">>
          [] h = "Referrer-Policy" -> <<"strict-origin-when-cross-origin">>]

\* the response's headers are replaced by the security headers
AddSecurityHeadersReplace(r) ==
    [r EXCEPT !.resp_headers = SecurityHeaderValue]

\* the statements after `response = await call_next(request)`
AddSecurityHeaders(r) ==
    [r EXCEPT !.resp_headers =
        [h \in (DOMAIN r.resp_headers \cup SecurityHeaders) \ {"server"} |->
            IF h \in SecurityHeaders THEN SecurityHeaderValue[h] ELSE r.resp_headers[h]]]

SecurityHeadersIn(s) ==
    /\ AtLayer(s, "in", "SecurityHeadersMiddleware")
    /\ req' = [req EXCEPT ![s] = Inward(@, "SecurityHeadersMiddleware")]
    /\ UNCHANGED <<now, settings, dbState, limiterState, admittedAt, arrivals>>

\* call_next returned a response, or raised: an exception passes through
\* dispatch, which has no handler for it
SecurityHeadersOut(s) ==
    /\ AtLayer(s, "out", "SecurityHeadersMiddleware")
    /\ req' = [req EXCEPT ![s] =
            IF req[s].result = "exception"
            THEN Outward(@, "SecurityHeadersMiddleware")
            ELSE Outward(AddSecurityHeaders(@), "SecurityHeadersMiddleware")]
    /\ UNCHANGED <<now, settings, dbState, limiterState, admittedAt, arrivals>>

-----------------------------------------------------------------------------
(* RateLimitMiddleware: app/middleware/rate_limit.py *)

\* X-Real-IP is looked at before X-Forwarded-For
GetClientIpRealIpFirst(r) ==
    LET forwarded == HeadersGet(r.headers, X_Forwarded_For)
        real_ip == HeadersGet(r.headers, X_Real_IP)
    IN  IF Truthy(real_ip) THEN real_ip
        ELSE IF Truthy(forwarded) THEN Strip(SplitFirst(forwarded))
        ELSE IF r.client # None THEN r.client
        ELSE unknown

\* _get_client_ip
GetClientIp(r) ==
    LET forwarded == HeadersGet(r.headers, X_Forwarded_For)
        real_ip == HeadersGet(r.headers, X_Real_IP)
    IN  IF Truthy(forwarded) THEN Strip(SplitFirst(forwarded))
        ELSE IF Truthy(real_ip) THEN real_ip
        ELSE IF r.client # None THEN r.client
        ELSE unknown

\* the lists are filtered and the keys are all kept
CleanupDictKeepKeys(d, cutoff) == [ip \in DOMAIN d |-> SelectTs(d[ip], cutoff)]

\* the sweep empties the dictionary instead of pruning it
CleanupDictClear(d, cutoff) == EmptyDict

\* one of the two loops of _cleanup_old_entries: every list is filtered and a
\* key whose list became empty is deleted
CleanupDict(d, cutoff) ==
    [ip \in {k \in DOMAIN d : SelectTs(d[k], cutoff) # <<>>} |-> SelectTs(d[ip], cutoff)]

\* the guard of _cleanup_old_entries
CleanupDue(current_time) == ~(current_time - last_cleanup < cleanup_interval)

\* the hour entries are pruned with the cutoff of the minute entries
AfterCleanupMinuteCutoff(current_time) ==
    IF CleanupDue(current_time)
    THEN [rpm |-> CleanupDict(requests_per_minute, current_time - MinuteWindow),
          rph |-> CleanupDict(requests_per_hour, current_time - MinuteWindow),
          last |-> current_time]
    ELSE [rpm |-> requests_per_minute, rph |-> requests_per_hour, last |-> last_cleanup]

\* the two cutoffs are swapped: the hour entries are pruned after one minute
AfterCleanupSwapped(current_time) ==
    IF CleanupDue(current_time)
    THEN [rpm |-> CleanupDict(requests_per_minute, current_time - HourWindow),
          rph |-> CleanupDict(requests_per_hour, current_time - MinuteWindow),
          last |-> current_time]
    ELSE [rpm |-> requests_per_minute, rph |-> requests_per_hour, last |-> last_cleanup]

\* the limiter's state after _cleanup_old_entries() called at current_time
AfterCleanup(current_time) ==
    IF CleanupDue(current_time)
    THEN [rpm |-> CleanupDict(requests_per_minute, current_time - MinuteWindow),
          rph |-> CleanupDict(requests_per_hour, current_time - HourWindow),
          last |-> current_time]
    ELSE [rpm |-> requests_per_minute, rph |-> requests_per_hour, last |-> last_cleanup]

\* len(minute_requests) > limit: one request too many is let in
MinuteLimitReachedLate(minute_requests) ==
    Len(minute_requests) > settings.RATE_LIMIT_PER_MINUTE

MinuteLimitReached(minute_requests) ==
    Len(minute_requests) >= settings.RATE_LIMIT_PER_MINUTE

\* len(hour_requests) > limit: one request too many is let in
HourLimitReachedLate(hour_requests) ==
    Len(hour_requests) > settings.RATE_LIMIT_PER_HOUR

HourLimitReached(hour_requests) ==
    Len(hour_requests) >= settings.RATE_LIMIT_PER_HOUR

\* raise HTTPException(429, ..., headers={"Retry-After": ...})
Raise429(r, scope, retry_after) ==
    [r EXCEPT !.result = "exception",
              !.status = HTTP_429_TOO_MANY_REQUESTS,
              !.detail = scope,
              !.resp_headers = DictSet(NoHeaders, "Retry-After", retry_after)]

\* what time() can return when the last reading was t: the clock does not go back
ClockReadings(t) == {u \in Instants : u >= t}

\* the two checks in the other order
LimiterVerdictHourFirst(minute_requests, hour_requests) ==
    IF HourLimitReached(hour_requests) THEN "hour"
    ELSE IF MinuteLimitReached(minute_requests) THEN "minute"
    ELSE "admitted"

\* the order of the two checks in dispatch; hour_requests is looked at only
\* when the minute check passed
LimiterVerdict(minute_requests, hour_requests) ==
    IF MinuteLimitReached(minute_requests) THEN "minute"
    ELSE IF HourLimitReached(hour_requests) THEN "hour"
    ELSE "admitted"

\* the request is recorded before the limits are checked: every attempt counts
RecordAlways(verdict, d, client_ip, requests, current_time) ==
    DictSet(d, client_ip, Append(requests, current_time))

\* requests.append(current_time); self.requests_per_...[client_ip] = requests:
\* reached only when neither check raised
Record(verdict, d, client_ip, requests, current_time) ==
    IF verdict = "admitted"
    THEN DictSet(d, client_ip, Append(requests, current_time))
    ELSE d

\* the flag is not looked at
RateLimitDisabledNever == FALSE

\* if not settings.RATE_LIMIT_ENABLED
RateLimitDisabled == ~settings.RATE_LIMIT_ENABLED

\* dispatch up to `await call_next(request)` or the raise: no await in between.
\* t1 is the clock read by _cleanup_old_entries, t2 the one read by dispatch.
\* nth (history) is the number of requests of the client admitted so far.
RateLimitIn(s) ==
    /\ AtLayer(s, "in", "RateLimitMiddleware")
    /\ IF req[s].path \in RateLimitSkipPaths
       THEN /\ req' = [req EXCEPT ![s] =
                    Inward([@ EXCEPT !.branch = "skip"], "RateLimitMiddleware")]
            /\ UNCHANGED <<now, limiterState, admittedAt>>
       ELSE IF RateLimitDisabled
       THEN /\ req' = [req EXCEPT ![s] =
                    Inward([@ EXCEPT !.branch = "disabled"], "RateLimitMiddleware")]
            /\ UNCHANGED <<now, limiterState, admittedAt>>
       ELSE \E t1 \in ClockReadings(now) : \E t2 \in ClockReadings(t1) :
            LET swept == AfterCleanup(t1)
                client_ip == GetClientIp(req[s])
                current_time == t2
                rpm == DictTouch(swept.rpm, client_ip)
                minute_requests == SelectTs(rpm[client_ip], current_time - MinuteWindow)
                rph == DictTouch(swept.rph, client_ip)
                hour_requests == SelectTs(rph[client_ip], current_time - HourWindow)
                verdict == LimiterVerdict(minute_requests, hour_requests)
                history == DictGet(admittedAt, client_ip)
                seen == [req[s] EXCEPT !.client_ip = client_ip,
                                       !.at = current_time, !.branch = verdict,
                                       !.nth = Len(history),
                                       !.minute_requests = minute_requests]
            IN  /\ now' = current_time
                /\ last_cleanup' = swept.last
                /\ CASE verdict = "minute" ->
                        /\ requests_per_minute' =
                            Record(verdict, rpm, client_ip, minute_requests, current_time)
                        /\ requests_per_hour' =
                            Record(verdict, swept.rph, client_ip, hour_requests, current_time)
                        /\ req' = [req EXCEPT ![s] = ShortCircuit(
                                Raise429(seen, "minute", <<"6","0">>),
                                "RateLimitMiddleware")]
                        /\ UNCHANGED admittedAt
                     [] verdict = "hour" ->
                        /\ requests_per_minute' =
                            Record(verdict, rpm, client_ip, minute_requests, current_time)
                        /\ requests_per_hour' =
                            Record(verdict, rph, client_ip, hour_requests, current_time)
                        /\ req' = [req EXCEPT ![s] = ShortCircuit(
                                Raise429([seen EXCEPT !.hour_requests = hour_requests],
                                         "hour", <<"3","6","0","0">>),
                                "RateLimitMiddleware")]
                        /\ UNCHANGED admittedAt
                     [] verdict = "admitted" ->
                        /\ requests_per_minute' =
                            Record(verdict, rpm, client_ip, minute_requests, current_time)
                        /\ requests_per_hour' =
                            Record(verdict, rph, client_ip, hour_requests, current_time)
                        /\ req' = [req EXCEPT ![s] = Inward(
                                [seen EXCEPT
                                    !.nth = Len(history) + 1,
                                    !.minute_requests = Append(minute_requests, current_time),
                                    !.hour_requests = Append(hour_requests, current_time)],
                                "RateLimitMiddleware")]
                        /\ admittedAt' = DictSet(admittedAt, client_ip,
                                                 Append(history, current_time))
    /\ UNCHANGED <<settings, dbState, arrivals>>

\* the remaining counts taken from the shared lists when the response comes
\* back, not from the lists the request built when it was admitted
AddRateLimitHeadersShared(r) ==
    SetHeader(SetHeader(SetHeader(SetHeader(r,
        "X-RateLimit-Limit-Minute", IntToStr(settings.RATE_LIMIT_PER_MINUTE)),
        "X-RateLimit-Remaining-Minute",
            IntToStr(settings.RATE_LIMIT_PER_MINUTE
                        - Len(DictGet(requests_per_minute, r.client_ip)))),
        "X-RateLimit-Limit-Hour", IntToStr(settings.RATE_LIMIT_PER_HOUR)),
        "X-RateLimit-Remaining-Hour",
            IntToStr(settings.RATE_LIMIT_PER_HOUR
                        - Len(DictGet(requests_per_hour, r.client_ip))))

\* the statements after `response = await call_next(request)` on line 109
AddRateLimitHeaders(r) ==
    SetHeader(SetHeader(SetHeader(SetHeader(r,
        "X-RateLimit-Limit-Minute", IntToStr(settings.RATE_LIMIT_PER_MINUTE)),
        "X-RateLimit-Remaining-Minute",
            IntToStr(settings.RATE_LIMIT_PER_MINUTE - Len(r.minute_requests))),
        "X-RateLimit-Limit-Hour", IntToStr(settings.RATE_LIMIT_PER_HOUR)),
        "X-RateLimit-Remaining-Hour",
            IntToStr(settings.RATE_LIMIT_PER_HOUR - Len(r.hour_requests)))

\* the inner chain returned or raised; the two early `return await
\* call_next(request)` hand the response on as it is
RateLimitOut(s) ==
    /\ AtLayer(s, "out", "RateLimitMiddleware")
    /\ req' = [req EXCEPT ![s] =
            IF req[s].result = "response" /\ req[s].branch = "admitted"
            THEN Outward(AddRateLimitHeaders(@), "RateLimitMiddleware")
            ELSE Outward(@, "RateLimitMiddleware")]
    /\ UNCHANGED <<now, settings, dbState, limiterState, admittedAt, arrivals>>

-----------------------------------------------------------------------------
(* CORSMiddleware, configured by app/middleware/cors.py: a request that is not
   a preflight goes through, and so does its response *)

CORSIn(s) ==
    /\ AtLayer(s, "in", "CORSMiddleware")
    /\ req' = [req EXCEPT ![s] = Inward(@, "CORSMiddleware")]
    /\ UNCHANGED <<now, settings, dbState, limiterState, admittedAt, arrivals>>

CORSOut(s) ==
    /\ AtLayer(s, "out", "CORSMiddleware")
    /\ req' = [req EXCEPT ![s] = Outward(@, "CORSMiddleware")]
    /\ UNCHANGED <<now, settings, dbState, limiterState, admittedAt, arrivals>>

-----------------------------------------------------------------------------
(* LoggingMiddleware: app/middleware/logging.py.  The elapsed time it
   measures is written to the log and the X-Process-Time header and read by
   nothing; the header is set, its value is kept in one piece. *)

LoggingIn(s) ==
    /\ AtLayer(s, "in", "LoggingMiddleware")
    /\ req' = [req EXCEPT ![s] = Inward(
            [@ EXCEPT !.log = Append(@, [line |-> "Request", status |-> 0])],
            "LoggingMiddleware")]
    /\ UNCHANGED <<now, settings, dbState, limiterState, admittedAt, arrivals>>

\* the statements after `response = await call_next(request)`; an exception
\* raised by call_next passes through dispatch
LoggingOut(s) ==
    /\ AtLayer(s, "out", "LoggingMiddleware")
    /\ req' = [req EXCEPT ![s] =
            IF req[s].result = "exception"
            THEN Outward(@, "LoggingMiddleware")
            ELSE Outward(
                    SetHeader([@ EXCEPT !.log = Append(@,
                                  [line |-> "Response", status |-> req[s].status])],
                              "X-Process-Time", <<"process_time">>),
                    "LoggingMiddleware")]
    /\ UNCHANGED <<now, settings, dbState, limiterState, admittedAt, arrivals>>

-----------------------------------------------------------------------------
(* APIKeyMiddleware: app/middleware/security.py *)

header_variations ==
    <<settings.API_KEY_HEADER, Lower(settings.API_KEY_HEADER), x_api_key, X_API_Key>>

\* for header_name in header_variations: api_key = get(header_name); break if api_key
RECURSIVE VariationsLoop(_, _)
VariationsLoop(headers, i) ==
    LET api_key == HeadersGet(headers, header_variations[i])
    IN  IF Truthy(api_key) \/ i = Len(header_variations)
        THEN api_key
        ELSE VariationsLoop(headers, i + 1)

\* for header_name, header_value in request.headers.items(): the value of the
\* first header named x-api-key or as configured, in any case; api_key when none
AllHeadersLoop(headers, api_key) ==
    LET configured == Lower(settings.API_KEY_HEADER)
        hits == {i \in 1..Len(headers) :
                    Lower(headers[i].name) \in {x_api_key, configured}}
    IN  IF hits = {} THEN api_key
        ELSE headers[CHOOSE i \in hits : \A j \in hits : i <= j].value

\* the api_key dispatch ends up with
FindApiKey(headers) ==
    LET api_key == VariationsLoop(headers, 1)
    IN  IF ~Truthy(api_key) THEN AllHeadersLoop(headers, api_key) ELSE api_key

\* not settings.API_KEY or settings.API_KEY.strip() == ""
ApiKeyNotConfigured ==
    ~Truthy(settings.API_KEY) \/ Strip(settings.API_KEY) = <<>>

\* api_key != settings.API_KEY: nothing is trimmed
ApiKeyInvalidExact(api_key) == api_key # settings.API_KEY

\* api_key.strip() != settings.API_KEY.strip()
ApiKeyInvalid(api_key) == Strip(api_key) # Strip(settings.API_KEY)

JSONResponse(r, status_code, detail, headers) ==
    [r EXCEPT !.result = "response", !.status = status_code,
              !.detail = detail, !.resp_headers = headers]

\* the request's credential looked at before the configured secret
ApiKeyVerdictCredentialFirst(r) ==
    IF r.path \in exclude_paths THEN "next"
    ELSE IF ~Truthy(FindApiKey(r.headers)) THEN "missing"
    ELSE IF ApiKeyInvalid(FindApiKey(r.headers)) THEN "invalid"
    ELSE IF ApiKeyNotConfigured THEN "not configured"
    ELSE "next"

\* a client that has used up its minute is locked out, whatever it presents
ApiKeyVerdictLockout(r) ==
    IF r.path \in exclude_paths THEN "next"
    ELSE IF ApiKeyNotConfigured THEN "not configured"
    ELSE IF Len(DictGet(requests_per_minute, r.client_ip)) >= settings.RATE_LIMIT_PER_MINUTE
    THEN "invalid"
    ELSE IF ~Truthy(FindApiKey(r.headers)) THEN "missing"
    ELSE IF ApiKeyInvalid(FindApiKey(r.headers)) THEN "invalid"
    ELSE "next"

\* the verdict of dispatch on a request: "next" is call_next(request)
ApiKeyVerdict(r) ==
    IF r.path \in exclude_paths THEN "next"
    ELSE IF ApiKeyNotConfigured THEN "not configured"
    ELSE IF ~Truthy(FindApiKey(r.headers)) THEN "missing"
    ELSE IF ApiKeyInvalid(FindApiKey(r.headers)) THEN "invalid"
    ELSE "next"

APIKeyIn(s) ==
    /\ AtLayer(s, "in", "APIKeyMiddleware")
    /\ LET verdict == ApiKeyVerdict(req[s])
       IN  req' = [req EXCEPT ![s] =
            CASE verdict = "next" -> Inward(@, "APIKeyMiddleware")
              [] verdict = "not configured" ->
                    ShortCircuit(JSONResponse(@, HTTP_500_INTERNAL_SERVER_ERROR,
                        "API key authentication is not configured. Please set API_KEY in .env file.",
                        NoHeaders), "APIKeyMiddleware")
              [] verdict = "missing" ->
                    ShortCircuit(JSONResponse(@, HTTP_401_UNAUTHORIZED,
                        "API key required. Please provide X-API-Key header.",
                        DictSet(NoHeaders, "WWW-Authenticate", <<"ApiKey">>)),
                        "APIKeyMiddleware")
              [] verdict = "invalid" ->
                    ShortCircuit(JSONResponse(@, HTTP_403_FORBIDDEN,
                        "Invalid API key.", NoHeaders), "APIKeyMiddleware")]
    /\ UNCHANGED <<now, settings, dbState, limiterState, admittedAt, arrivals>>

\* `return await call_next(request)`: the result is handed on as it is
APIKeyOut(s) ==
    /\ AtLayer(s, "out", "APIKeyMiddleware")
    /\ req' = [req EXCEPT ![s] = Outward(@, "APIKeyMiddleware")]
    /\ UNCHANGED <<now, settings, dbState, limiterState, admittedAt, arrivals>>

-----------------------------------------------------------------------------
(* The router and the route handlers (app/api/v1/endpoints): whatever a
   handler does ends in a response; the handlers turn their errors into
   HTTPException, which is answered inside the middleware stack *)

RouterStatuses == {200, 404, 500}

Router(s, response_headers) ==
    /\ AtLayer(s, "in", "router")
    /\ \E status_code \in RouterStatuses, hs \in response_headers :
        req' = [req EXCEPT ![s] =
            ShortCircuit(JSONResponse(@, status_code, "handler", hs), "router")]
    /\ UNCHANGED <<now, settings, dbState, limiterState, admittedAt, arrivals>>

\* a handler ends in an exception that is not an HTTPException (one that the
\* `except Exception` clauses of the handlers do not catch, or one raised
\* after the handler returned).  main.py registers general_exception_handler
\* for Exception: Starlette serves that handler outside the whole middleware
\* stack, so the exception crosses every middleware on its way out
RouterRaises(s) ==
    /\ AtLayer(s, "in", "router")
    /\ req' = [req EXCEPT ![s] =
            ShortCircuit([@ EXCEPT !.result = "exception", !.status = 0,
                                   !.detail = "unhandled",
                                   !.resp_headers = NoHeaders], "router")]
    /\ UNCHANGED <<now, settings, dbState, limiterState, admittedAt, arrivals>>

-----------------------------------------------------------------------------
(* Database: app/database.py.  An engine is known by the attempt that created
   it; a session maker by the engine it is bound to.  connect() is suspended
   at `await conn.execute` and at `await asyncio.sleep`, and runs without
   interruption in between. *)

\* retries and delay of the call in lifespan()
StartupRetries == 3
StartupDelay == 5

\* self.engine = None, self.async_session_maker = None, last_exception = None
NoEngine == [attempt |-> 0, disposed |-> FALSE]
NoSessionMaker == [bind |-> 0]
NoError == [attempt |-> 0, statement |-> ""]

\* get_session() has not been called
NotAsked == [kind |-> "", message |-> "", bind |-> 0]

\* connect() has not been called.  History: raised is the exception that left
\* the call, waits are the arguments of asyncio.sleep in order, tested is the
\* attempt whose test query succeeded
NoCall ==
    [pc |-> "idle", retries |-> 0, delay |-> 0, attempt |-> 0,
     last_exception |-> NoError, raised |-> NoError, waits |-> <<>>, tested |-> 0]

\* the state after Database.__init__
DatabaseCreated ==
    /\ engine = NoEngine
    /\ async_session_maker = NoSessionMaker
    /\ call = NoCall
    /\ got = NotAsked
    /\ lifespan = "created"

\* the state in which the application serves requests: lifespan() has
\* yielded after a connect() whose first attempt succeeded
DatabaseUp ==
    /\ engine = [attempt |-> 1, disposed |-> FALSE]
    /\ async_session_maker = [bind |-> 1]
    /\ call = [NoCall EXCEPT !.pc = "returned", !.retries = StartupRetries,
                             !.delay = StartupDelay, !.attempt = 1, !.tested = 1]
    /\ got = NotAsked
    /\ lifespan = "yielded"

\* the exception an attempt ended in, named by the statement that raised it
AttemptError(attempt, statement) == [attempt |-> attempt, statement |-> statement]

ValueError(message) == [attempt |-> 0, statement |-> message]

\* the bare `raise` re-raises the first error the call has seen
ExceptFirstError(c, e) ==
    IF c.attempt < c.retries
    THEN [c EXCEPT !.pc = "sleeping",
                   !.last_exception = e,
                   !.waits = Append(@, c.delay * c.attempt)]
    ELSE [c EXCEPT !.pc = "raised",
                   !.last_exception = e,
                   !.raised = IF c.last_exception = NoError THEN e ELSE c.last_exception]

\* the `except Exception as e` clause of the retry loop, lines 113-129, up to
\* `await asyncio.sleep(wait_time)` or the bare `raise`, which re-raises e
Except(c, e) ==
    IF c.attempt < c.retries
    THEN [c EXCEPT !.pc = "sleeping",
                   !.last_exception = e,
                   !.waits = Append(@, c.delay * c.attempt)]
    ELSE [c EXCEPT !.pc = "raised",
                   !.last_exception = e,
                   !.raised = e]

\* one pass of the loop body from line 85 to `await conn.execute` on line
\* 108: create_async_engine returns an engine, which is stored together with
\* a session maker bound to it before the test query is sent, or it raises
BeginAttempt(c, attempt) ==
    \/ /\ engine' = [attempt |-> attempt, disposed |-> FALSE]
       /\ async_session_maker' = [bind |-> attempt]
       /\ call' = [c EXCEPT !.pc = "testing", !.attempt = attempt]
    \/ /\ UNCHANGED <<engine, async_session_maker>>
       /\ call' = Except([c EXCEPT !.attempt = attempt],
                         AttemptError(attempt, "create_async_engine"))

\* connect(retries, delay) from its first line to the first await or to its
\* end: the URL is built and checked, and the loop is entered
Connect(retries, delay) ==
    /\ call.pc = "idle"
    /\ LET c == [call EXCEPT !.retries = retries, !.delay = delay]
       IN  IF ~Truthy(settings.DATABASE_URL)
           THEN /\ call' = [c EXCEPT !.pc = "raised",
                                     !.raised = ValueError("DATABASE_URL is required")]
                /\ UNCHANGED <<engine, async_session_maker>>
           ELSE IF Strip(settings.DATABASE_URL) = <<>>
           THEN /\ call' = [c EXCEPT !.pc = "raised", !.raised = ValueError(
                        "DATABASE_URL is not set in environment variables. Please check your .env file.")]
                /\ UNCHANGED <<engine, async_session_maker>>
           ELSE IF retries < 1
           THEN /\ call' = [c EXCEPT !.pc = "returned"]
                /\ UNCHANGED <<engine, async_session_maker>>
           ELSE BeginAttempt(c, 1)
    /\ UNCHANGED <<now, settings, limiterState, req, admittedAt, arrivals, got>>

\* a caller other than the application calls connect
ConnectCall(retries_inputs, delays) ==
    /\ lifespan = "created"
    /\ \E retries \in retries_inputs, delay \in delays : Connect(retries, delay)
    /\ UNCHANGED lifespan

\* the answer to the test query arrives: `return`, or the except clause
TestQuery ==
    /\ call.pc = "testing"
    /\ \/ call' = [call EXCEPT !.pc = "returned", !.tested = call.attempt]
       \/ call' = Except(call, AttemptError(call.attempt, "SELECT 1"))
    /\ UNCHANGED <<now, settings, limiterState, req, admittedAt, arrivals,
                   engine, async_session_maker, got, lifespan>>

\* asyncio.sleep(wait_time) is over: the next pass of the loop
Wake ==
    /\ call.pc = "sleeping"
    /\ BeginAttempt(call, call.attempt + 1)
    /\ UNCHANGED <<now, settings, limiterState, req, admittedAt, arrivals,
                   got, lifespan>>

\* what get_session() gives in the current state
GetSessionResult ==
    IF async_session_maker = NoSessionMaker
    THEN [kind |-> "RuntimeError",
          message |-> "Database not connected. Call connect() first.", bind |-> 0]
    ELSE [kind |-> "AsyncSession", message |-> "", bind |-> async_session_maker.bind]

\* get_session(), called directly or by fetch, fetchrow, fetchval, execute;
\* the caller has awaited its connect() call, if it made one
GetSession ==
    /\ call.pc \in {"idle", "returned", "raised"}
    /\ got' = GetSessionResult
    /\ UNCHANGED <<now, settings, limiterState, req, admittedAt, arrivals,
                   engine, async_session_maker, call, lifespan>>

\* disconnect(): the engine, if there is one, is disposed of and stays stored
Disconnect ==
    /\ engine' = IF engine # NoEngine THEN [engine EXCEPT !.disposed = TRUE] ELSE engine
    /\ UNCHANGED <<async_session_maker, call, got>>

\* lifespan() of app/main.py: start-up calls connect(retries=3, delay=5)
LifespanStartup ==
    /\ lifespan = "created"
    /\ Connect(StartupRetries, StartupDelay)
    /\ lifespan' = "startup"

\* connect returned: lifespan() yields and the application serves
LifespanYield ==
    /\ lifespan = "startup"
    /\ call.pc = "returned"
    /\ lifespan' = "yielded"
    /\ UNCHANGED <<now, settings, limiterState, req, admittedAt, arrivals,
                   engine, async_session_maker, call, got>>

\* connect raised: lifespan() logs and re-raises, start-up is aborted
LifespanRaise ==
    /\ lifespan = "startup"
    /\ call.pc = "raised"
    /\ lifespan' = "failed"
    /\ UNCHANGED <<now, settings, limiterState, req, admittedAt, arrivals,
                   engine, async_session_maker, call, got>>

\* the code after `yield`: shutdown
LifespanShutdown ==
    /\ lifespan = "yielded"
    /\ Disconnect
    /\ lifespan' = "stopped"
    /\ UNCHANGED <<now, settings, limiterState, req, admittedAt, arrivals>>

-----------------------------------------------------------------------------
(* The environment: the clients *)

\* a request arrives and is handed to the outermost layer
Arrive(s, paths, header_lists, clients) ==
    /\ req[s].pc = "idle"
    /\ arrivals < MaxRequests
    /\ \E path \in paths, headers \in header_lists, client \in clients :
        req' = [req EXCEPT ![s] =
            [IdleRequest EXCEPT !.pc = "in", !.depth = 1, !.path = path,
                                !.headers = headers, !.client = client]]
    /\ arrivals' = arrivals + 1
    /\ UNCHANGED <<now, settings, dbState, limiterState, admittedAt>>

\* the response has been sent (or the exception has left the stack)
Finish(s) ==
    /\ req[s].pc = "done"
    /\ req' = [req EXCEPT ![s] = IdleRequest]
    /\ UNCHANGED <<now, settings, dbState, limiterState, admittedAt, arrivals>>

\* one step of a request through the stack
Pipeline(s) ==
    \/ SecurityHeadersIn(s)
    \/ RateLimitIn(s)
    \/ CORSIn(s)
    \/ LoggingIn(s)
    \/ APIKeyIn(s)
    \/ APIKeyOut(s)
    \/ LoggingOut(s)
    \/ CORSOut(s)
    \/ RateLimitOut(s)
    \/ SecurityHeadersOut(s)
    \/ Finish(s)

\* the state after RateLimitMiddleware.__init__ and the loading of the settings
InitWith(api_keys, api_key_headers, enabled, per_minute, per_hour) ==
    /\ now = 0
    /\ settings \in [API_KEY : api_keys, API_KEY_HEADER : api_key_headers,
                      RATE_LIMIT_ENABLED : enabled,
                      RATE_LIMIT_PER_MINUTE : per_minute,
                      RATE_LIMIT_PER_HOUR : per_hour]
    /\ requests_per_minute = EmptyDict
    /\ requests_per_hour = EmptyDict
    /\ last_cleanup = now
    /\ req = [s \in Slots |-> IdleRequest]
    /\ admittedAt = EmptyDict
    /\ arrivals = 0
    /\ DatabaseUp

-----------------------------------------------------------------------------
(* Inputs *)

Secret == <<"a","b","c","1","2","3">>

ApiKeyHeader(name, value) == <<[name |-> name, value |-> value]>>

HostA == <<"1","0",".","0",".","0",".","1">>
HostB == <<"1","0",".","0",".","0",".","2">>

ValidKey == ApiKeyHeader(X_API_Key, Secret)

WrongKey == <<"w","r","o","n","g">>

\* the sets the requests are drawn from are definitions of their own: each is
\* evaluated once, before the first state
Hosts == {HostA, HostB}

PeerOrNone == {HostA, None}

ProtectedAndDocs == {"/api/v1/articles", "/docs"}

KeyOrNone == {<<>>, ValidKey}

ThreeCredentials == {<<>>, ValidKey, ApiKeyHeader(X_API_Key, WrongKey)}

-----------------------------------------------------------------------------
(* The limiter under load: two clients with valid keys, small limits *)

ArriveLimiter(s) ==
    Arrive(s, {"/api/v1/articles"}, {ValidKey}, Hosts)

RouterLimiter(s) == Router(s, {NoHeaders})

InitLimiter == InitWith({Secret}, {X_API_Key}, {TRUE}, {1, 2}, {2, 3})

NextLimiter ==
    \E s \in {"s1"} : ArriveLimiter(s) \/ Pipeline(s) \/ RouterLimiter(s)

SpecLimiter == InitLimiter /\ [][NextLimiter]_vars

-----------------------------------------------------------------------------
(* The authenticator: one client, every kind of credential, every kind of
   configured secret *)

Padded(v) == <<" ">> \o v \o <<" ", "\t">>

Credentials ==
    {<<>>,
     ValidKey,
     ApiKeyHeader(x_api_key, Secret),
     ApiKeyHeader(X_API_Key, WrongKey),
     ApiKeyHeader(X_API_Key, Padded(Secret)),
     ApiKeyHeader(X_API_Key, Padded(WrongKey)),
     ApiKeyHeader(X_API_Key, <<>>),
     ApiKeyHeader(X_API_Key, <<" ">>)}

ArriveAuth(s) ==
    Arrive(s, ProtectedAndDocs, Credentials, {HostA})

RouterAuth(s) == Router(s, {NoHeaders})

InitAuth ==
    InitWith({Secret, Padded(Secret), <<>>, <<" ", "\t">>}, {X_API_Key},
             BOOLEAN, {2}, {3})

NextAuth ==
    \E s \in {"s1"} : ArriveAuth(s) \/ Pipeline(s) \/ RouterAuth(s)

SpecAuth == InitAuth /\ [][NextAuth]_vars

-----------------------------------------------------------------------------
(* The whole stack: excluded and protected paths, good and bad credentials,
   a secret that may be missing, a limit that is soon reached *)

PathsAny == {"/api/v1/articles", "/docs", "/docs/x"}

ResponseHeadersAny == {NoHeaders, DictSet(NoHeaders, "server", <<"uvicorn">>)}

ArriveAny(s) == Arrive(s, PathsAny, ThreeCredentials, {HostA})

RouterAny(s) == Router(s, ResponseHeadersAny)

Init == InitWith({Secret, <<>>}, {X_API_Key}, {TRUE}, {1}, {2})

Next ==
    \E s \in {"s1"} : ArriveAny(s) \/ Pipeline(s) \/ RouterAny(s)

Spec == Init /\ [][Next]_vars

-----------------------------------------------------------------------------
(* Requests of one client served concurrently *)

ArriveConcurrent(s) ==
    Arrive(s, {"/api/v1/articles"}, {ValidKey}, {HostA})

RouterConcurrent(s) == Router(s, {NoHeaders})

InitConcurrent == InitWith({Secret}, {X_API_Key}, {TRUE}, {2}, {3})

NextConcurrent ==
    \E s \in Slots : ArriveConcurrent(s) \/ Pipeline(s) \/ RouterConcurrent(s)

SpecConcurrent == InitConcurrent /\ [][NextConcurrent]_vars

-----------------------------------------------------------------------------
(* Handlers that fail: the inner chain hands the logger an exception *)

ArriveErrors(s) == Arrive(s, ProtectedAndDocs, ThreeCredentials, {HostA})

RouterErrors(s) == Router(s, {NoHeaders}) \/ RouterRaises(s)

InitErrors == InitWith({Secret}, {X_API_Key}, BOOLEAN, {2}, {3})

NextErrors ==
    \E s \in {"s1"} : ArriveErrors(s) \/ Pipeline(s) \/ RouterErrors(s)

SpecErrors == InitErrors /\ [][NextErrors]_vars

-----------------------------------------------------------------------------
(* The API-key header under other names and in other letter cases, with the
   configured name X-API-Key or X-Token *)

X_Token == <<"X","-","T","o","k","e","n">>
X_TOKEN == <<"X","-","T","O","K","E","N">>
x_token == <<"x","-","t","o","k","e","n">>
X_API_KEY == <<"X","-","A","P","I","-","K","E","Y">>
Authorization == <<"A","u","t","h","o","r","i","z","a","t","i","o","n">>

HeaderLists ==
    {<<>>,
     ValidKey,
     ApiKeyHeader(x_api_key, Secret),
     ApiKeyHeader(X_API_KEY, Secret),
     ApiKeyHeader(X_API_Key, WrongKey),
     ApiKeyHeader(X_Token, Secret),
     ApiKeyHeader(X_TOKEN, Secret),
     ApiKeyHeader(x_token, WrongKey),
     ApiKeyHeader(Authorization, Secret),
     ApiKeyHeader(X_TOKEN, WrongKey) \o ApiKeyHeader(x_api_key, Secret),
     ApiKeyHeader(X_Token, <<>>) \o ApiKeyHeader(X_API_KEY, Secret),
     ApiKeyHeader(x_api_key, WrongKey) \o ApiKeyHeader(X_TOKEN, Secret)}

ArriveHeaders(s) ==
    Arrive(s, {"/api/v1/articles"}, HeaderLists, {HostA})

RouterHeaders(s) == Router(s, {NoHeaders})

InitHeaders == InitWith({Secret}, {X_API_Key, X_Token}, {TRUE}, {2}, {3})

NextHeaders ==
    \E s \in {"s1"} : ArriveHeaders(s) \/ Pipeline(s) \/ RouterHeaders(s)

SpecHeaders == InitHeaders /\ [][NextHeaders]_vars

-----------------------------------------------------------------------------
(* The same requests again: two slots, so that a request that has been
   answered can be held against the later ones *)

\* a request arrives once the one before it has been answered: the requests
\* are served one after the other
ArriveReplay(s) ==
    /\ \A o \in Slots \ {s} : req[o].pc \in {"idle", "done"}
    /\ Arrive(s, {"/api/v1/articles"}, ThreeCredentials, {HostA})

RouterReplay(s) == Router(s, {NoHeaders})

InitReplay == InitWith({Secret}, {X_API_Key}, {TRUE}, {2}, {3})

NextReplay ==
    \E s \in Slots : ArriveReplay(s) \/ Pipeline(s) \/ RouterReplay(s)

SpecReplay == InitReplay /\ [][NextReplay]_vars

-----------------------------------------------------------------------------
(* Every excluded path, and paths that only begin with one *)

PathsEvery ==
    {"/", "/docs", "/redoc", "/openapi.json", "/api/v1/health",
     "/docs/x", "/api/v1/health/", "/api/v1/articles"}

ArrivePaths(s) == Arrive(s, PathsEvery, KeyOrNone, {HostA})

RouterPaths(s) == Router(s, {NoHeaders})

InitPaths == InitWith({Secret}, {X_API_Key}, {TRUE}, {1}, {2})

NextPaths ==
    \E s \in {"s1"} : ArrivePaths(s) \/ Pipeline(s) \/ RouterPaths(s)

SpecPaths == InitPaths /\ [][NextPaths]_vars

-----------------------------------------------------------------------------
(* Clients behind proxies: the forwarding headers in every combination the
   limiter tells apart, with and without a transport peer *)

x_forwarded_for == <<"x","-","f","o","r","w","a","r","d","e","d","-","f","o","r">>

ForwardedHeader(name, value) == <<[name |-> name, value |-> value]>>

ForwardedLists ==
    {ForwardedHeader(x_forwarded_for, <<" ">> \o HostA \o <<" ", ",", " ">> \o HostB)
        \o ForwardedHeader(X_Real_IP, HostB),
     ForwardedHeader(X_Forwarded_For, <<>>) \o ForwardedHeader(X_Real_IP, HostA)}

\* a request comes straight from a peer, or without one, and carries the key;
\* or it comes with forwarding headers and without a peer address
ArriveClients(s) ==
    \/ Arrive(s, {"/api/v1/articles"}, {ValidKey}, PeerOrNone)
    \/ Arrive(s, {"/api/v1/articles"}, ForwardedLists, {None})

RouterClients(s) == Router(s, {NoHeaders})

InitClients == InitWith({Secret}, {X_API_Key}, {TRUE}, {1}, {2})

NextClients ==
    \E s \in {"s1"} : ArriveClients(s) \/ Pipeline(s) \/ RouterClients(s)

SpecClients == InitClients /\ [][NextClients]_vars

-----------------------------------------------------------------------------
(* What the handlers send: a JSON response carries its content type, a
   response built by hand may carry no header at all.  Protected and excluded
   paths, good and bad credentials, a secret that may be missing *)

ContentType == DictSet(NoHeaders, "content-type", <<"application/json">>)

ResponseHeadersPass == {NoHeaders, ContentType}

ArrivePass(s) == Arrive(s, ProtectedAndDocs, ThreeCredentials, {HostA})

RouterPass(s) == Router(s, ResponseHeadersPass)

InitPass == InitWith({Secret, <<>>}, {X_API_Key}, {TRUE}, {1}, {2})

NextPass ==
    \E s \in {"s1"} : ArrivePass(s) \/ Pipeline(s) \/ RouterPass(s)

SpecPass == InitPass /\ [][NextPass]_vars

-----------------------------------------------------------------------------
(* One client that keeps failing authentication: no key, a wrong key or a
   good one, against a secret that may be missing, with limits that leave
   room for more than one attempt *)

ArriveQuota(s) == Arrive(s, {"/api/v1/articles"}, ThreeCredentials, {HostA})

RouterQuota(s) == Router(s, {NoHeaders})

InitQuota == InitWith({Secret, <<>>}, {X_API_Key}, {TRUE}, {2}, {3})

NextQuota ==
    \E s \in {"s1"} : ArriveQuota(s) \/ Pipeline(s) \/ RouterQuota(s)

SpecQuota == InitQuota /\ [][NextQuota]_vars

-----------------------------------------------------------------------------
(* The database connection: connect called by the application's start-up, or
   by another caller with its own retries and delay, against a server that
   may fail at any attempt; a URL that is set, or blank *)

DatabaseUrl == <<"p","o","s","t","g","r","e","s",":","/","/","d","b">>

RetriesInputs == {0, 1, 2, 3}

Delays == {1, 5}

InitDatabase ==
    /\ now = 0
    /\ settings \in [API_KEY : {Secret}, API_KEY_HEADER : {X_API_Key},
                      RATE_LIMIT_ENABLED : {TRUE},
                      RATE_LIMIT_PER_MINUTE : {1}, RATE_LIMIT_PER_HOUR : {2},
                      DATABASE_URL : {DatabaseUrl, <<" ">>}]
    /\ requests_per_minute = EmptyDict
    /\ requests_per_hour = EmptyDict
    /\ last_cleanup = now
    /\ req = [s \in Slots |-> IdleRequest]
    /\ admittedAt = EmptyDict
    /\ arrivals = 0
    /\ DatabaseCreated

NextDatabase ==
    \/ ConnectCall(RetriesInputs, Delays)
    \/ LifespanStartup
    \/ TestQuery
    \/ Wake
    \/ GetSession
    \/ LifespanYield
    \/ LifespanRaise
    \/ LifespanShutdown

SpecDatabase == InitDatabase /\ [][NextDatabase]_vars

-----------------------------------------------------------------------------
(* Vocabulary of the properties *)

\* the limiter has decided on the request in slot s
Limited(s) == req[s].branch \in {"minute", "hour", "admitted"}

Admitted(s) == req[s].branch = "admitted"

ClientOf(s) == req[s].client_ip

\* the instants of the client's requests admitted before the one in slot s
PriorOf(s) ==
    SubSeq(DictGet(admittedAt, ClientOf(s)), 1,
           IF Admitted(s) THEN req[s].nth - 1 ELSE req[s].nth)

\* how many of the instants in h lie in the window (t - window, t]
CountIn(h, t, window) ==
    Cardinality({k \in 1..Len(h) : h[k] > t - window /\ h[k] <= t})

PriorMinute(s) == CountIn(PriorOf(s), req[s].at, 60)
PriorHour(s) == CountIn(PriorOf(s), req[s].at, 3600)

\* the response of the request in slot s has left the limiter on its way out
LeftLimiter(s) ==
    /\ req[s].result = "response"
    /\ \E i \in 1..Len(req[s].exited) : req[s].exited[i] = "RateLimitMiddleware"

Header(s, name) ==
    IF name \in DOMAIN req[s].resp_headers THEN req[s].resp_headers[name] ELSE None

-----------------------------------------------------------------------------
(* C1: per-minute sliding window.  A request that arrives when its client
   already has RATE_LIMIT_PER_MINUTE or more admitted requests in the last 60
   seconds is rejected with the minute scope, and no client ever has more than
   RATE_LIMIT_PER_MINUTE admitted requests in any window of 60 seconds. *)
C1_MinuteWindow ==
    /\ \A s \in Slots :
        (Limited(s) /\ PriorMinute(s) >= settings.RATE_LIMIT_PER_MINUTE)
            => /\ req[s].branch = "minute"
               /\ req[s].result = "exception"
               /\ req[s].detail = "minute"
    /\ \A c \in DOMAIN admittedAt : \A k \in 1..Len(admittedAt[c]) :
        CountIn(admittedAt[c], admittedAt[c][k], 60) <= settings.RATE_LIMIT_PER_MINUTE

\* a client with two admitted requests in the window is turned away at limit 2
C1_Witness ==
    \E s \in Slots :
        /\ req[s].branch = "minute"
        /\ settings.RATE_LIMIT_PER_MINUTE = 2
        /\ PriorMinute(s) = 2

(* C2: per-hour sliding window.  A request that arrives when its client
   already has RATE_LIMIT_PER_HOUR or more admitted requests in the last 3600
   seconds is rejected, and no client ever has more than RATE_LIMIT_PER_HOUR
   admitted requests in any window of 3600 seconds. *)
C2_HourWindow ==
    /\ \A s \in Slots :
        (Limited(s) /\ PriorHour(s) >= settings.RATE_LIMIT_PER_HOUR)
            => /\ req[s].branch \in {"minute", "hour"}
               /\ req[s].result = "exception"
    /\ \A c \in DOMAIN admittedAt : \A k \in 1..Len(admittedAt[c]) :
        CountIn(admittedAt[c], admittedAt[c][k], 3600) <= settings.RATE_LIMIT_PER_HOUR

\* a client whose minute window is free is turned away by the hour limit
C2_Witness ==
    \E s \in Slots :
        /\ req[s].branch = "hour"
        /\ PriorHour(s) = settings.RATE_LIMIT_PER_HOUR
        /\ PriorMinute(s) = 0

(* C3: outcome and precedence.  The minute window is looked at first: the
   request is rejected with 429 and Retry-After 60 exactly when the minute
   count has reached its limit (whatever the hour count), with 429 and
   Retry-After 3600 exactly when the minute count is below its limit and the
   hour count has reached its limit, and is admitted in every other case. *)
C3_Precedence ==
    \A s \in Slots : Limited(s) =>
        LET minute_full == PriorMinute(s) >= settings.RATE_LIMIT_PER_MINUTE
            hour_full == PriorHour(s) >= settings.RATE_LIMIT_PER_HOUR
        IN  /\ req[s].branch = "minute" <=> minute_full
            /\ req[s].branch = "hour" <=> (~minute_full /\ hour_full)
            /\ req[s].branch = "admitted" <=> (~minute_full /\ ~hour_full)
            /\ req[s].branch = "minute" =>
                    /\ req[s].result = "exception"
                    /\ req[s].status = 429
                    /\ Header(s, "Retry-After") = <<"6","0">>
            /\ req[s].branch = "hour" =>
                    /\ req[s].result = "exception"
                    /\ req[s].status = 429
                    /\ Header(s, "Retry-After") = <<"3","6","0","0">>
            /\ req[s].branch = "admitted" => req[s].result # "exception"

\* both limits are reached and the rejection names the minute
C3_Witness ==
    \E s \in Slots :
        /\ req[s].branch = "minute"
        /\ PriorHour(s) >= settings.RATE_LIMIT_PER_HOUR
        /\ Header(s, "Retry-After") = <<"6","0">>

(* C8: window recovery.  When 60 seconds or more have passed since the
   client's latest admitted request, its next request meets an empty minute
   window: it is not rejected at minute scope and, admitted, shows
   RATE_LIMIT_PER_MINUTE - 1 remaining; the same for the hour with 3600
   seconds.  A timestamp exactly one window old does not count. *)
C8_Recovery ==
    \A s \in Slots : (Limited(s) /\ PriorOf(s) # <<>>) =>
        LET idle == req[s].at - PriorOf(s)[Len(PriorOf(s))]
        IN  /\ idle >= 60 =>
                /\ req[s].branch # "minute"
                /\ Len(req[s].minute_requests) = IF Admitted(s) THEN 1 ELSE 0
                /\ (Admitted(s) /\ LeftLimiter(s)) =>
                        Header(s, "X-RateLimit-Remaining-Minute") =
                            IntToStr(settings.RATE_LIMIT_PER_MINUTE - 1)
            /\ idle >= 3600 =>
                /\ Admitted(s)
                /\ Len(req[s].hour_requests) = 1
                /\ LeftLimiter(s) =>
                        Header(s, "X-RateLimit-Remaining-Hour") =
                            IntToStr(settings.RATE_LIMIT_PER_HOUR - 1)

\* a client that had used up its minute is served again exactly 60 seconds later
C8_Witness ==
    \E s \in Slots :
        /\ Admitted(s) /\ LeftLimiter(s)
        /\ Len(PriorOf(s)) >= settings.RATE_LIMIT_PER_MINUTE
        /\ \A k \in 1..Len(PriorOf(s)) : req[s].at - PriorOf(s)[k] = 60

-----------------------------------------------------------------------------
(* Vocabulary of the authentication properties *)

Has(seq, x) == \E i \in 1..Len(seq) : seq[i] = x

ExcludedPaths == {"/", "/docs", "/redoc", "/openapi.json", "/api/v1/health"}

\* the authenticator has decided on the request in slot s
AuthDecided(s) == Has(req[s].entered, "APIKeyMiddleware")

\* ... and called the route handler's side of the stack
AuthPassed(s) ==
    /\ AuthDecided(s)
    /\ \/ req[s].pc = "in"
       \/ Has(req[s].entered, "router")

\* ... or answered itself, with this status
AuthAnswered(s, status_code) ==
    /\ AuthDecided(s)
    /\ ~AuthPassed(s)
    /\ req[s].result = "response"
    /\ req[s].status = status_code

SecretBlank == \A i \in 1..Len(settings.API_KEY) : settings.API_KEY[i] \in Whitespace

\* the non-empty values the request carries under the name of the API-key header
PresentedKeys(s) ==
    {req[s].headers[i].value : i \in
        {j \in 1..Len(req[s].headers) :
            /\ Lower(req[s].headers[j].name) \in {x_api_key, Lower(settings.API_KEY_HEADER)}
            /\ req[s].headers[j].value # <<>>}}

(* C4: the authentication decision table.  On a path that is not excluded
   and with a secret that is not blank, the authenticator answers 401 with a
   WWW-Authenticate challenge exactly when the request carries no non-empty
   API-key header value, 403 exactly when it carries one whose trimmed form
   differs from the trimmed secret, and calls the route handler exactly when
   the trimmed value equals the trimmed secret; after 401 or 403 the handler
   is not reached. *)
C4_DecisionTable ==
    \A s \in Slots :
        (AuthDecided(s) /\ req[s].path \notin ExcludedPaths /\ ~SecretBlank) =>
            LET keys == PresentedKeys(s)
                secret == Strip(settings.API_KEY)
            IN  /\ AuthAnswered(s, 401) <=> keys = {}
                /\ AuthAnswered(s, 403) <=>
                        (keys # {} /\ \E k \in keys : Strip(k) # secret)
                /\ AuthPassed(s) <=>
                        (keys # {} /\ \A k \in keys : Strip(k) = secret)
                /\ AuthAnswered(s, 401) => Header(s, "WWW-Authenticate") = <<"ApiKey">>
                /\ (AuthAnswered(s, 401) \/ AuthAnswered(s, 403)) =>
                        ~Has(req[s].entered, "router")

\* a key that equals the secret only after trimming reaches the handler
C4_Witness ==
    \E s \in Slots :
        /\ Has(req[s].entered, "router")
        /\ req[s].path \notin ExcludedPaths
        /\ settings.API_KEY = Secret
        /\ req[s].headers = ApiKeyHeader(X_API_Key, Padded(Secret))

(* C6: the misconfigured secret.  When the configured secret is empty or
   blank, every request to a path that is not excluded gets 500 with the
   configuration message from the authenticator, whatever credential it
   carries, and the route handler is not reached. *)
C6_Misconfigured ==
    \A s \in Slots :
        (AuthDecided(s) /\ req[s].path \notin ExcludedPaths /\ SecretBlank) =>
            /\ AuthAnswered(s, 500)
            /\ req[s].detail =
                "API key authentication is not configured. Please set API_KEY in .env file."
            /\ ~Has(req[s].entered, "router")

\* a blank secret and a request without a key: 500, not 401
C6_Witness ==
    \E s \in Slots :
        /\ AuthAnswered(s, 500)
        /\ settings.API_KEY = <<" ", "\t">>
        /\ req[s].headers = <<>>
        /\ req[s].pc = "done"

-----------------------------------------------------------------------------
(* Properties of the stack *)

\* the client's admitted requests that count at instant t
InWindow(c, t, window) == CountIn(DictGet(admittedAt, c), t, window)

(* C5: excluded paths bypass both gates.  A step of a request whose path is
   one of the excluded paths never changes the limiter's state, whatever the
   state of its client's windows; the limiter and the authenticator hand the
   request inwards, whatever credential it carries and whether or not the
   secret is configured, so that it is answered by the route handler. *)
C5_ExcludedBypass ==
    [][\A s \in Slots :
        (req[s].path \in ExcludedPaths /\ req'[s] # req[s]) =>
            /\ UNCHANGED limiterState
            /\ req'[s].result # "exception"
            /\ req'[s].branch \in {"none", "skip"}
            /\ req[s].pc = "in" =>
                    \/ req'[s].pc = "in" /\ req'[s].depth = req[s].depth + 1
                    \/ Layer(s) = "router"
            /\ req'[s].pc = "done" => Has(req'[s].entered, "router")]_vars

\* the client's window is full, the secret is not configured, the key is
\* wrong, and the request for /docs has been answered by the route handler
C5_Witness ==
    \E s \in Slots :
        /\ req[s].path = "/docs"
        /\ req[s].pc = "done"
        /\ Has(req[s].entered, "router")
        /\ req[s].headers = ApiKeyHeader(X_API_Key, WrongKey)
        /\ settings.API_KEY = <<>>
        /\ InWindow(req[s].client, now, 60) >= settings.RATE_LIMIT_PER_MINUTE

LayerOrder ==
    <<"SecurityHeadersMiddleware", "RateLimitMiddleware", "CORSMiddleware",
      "LoggingMiddleware", "APIKeyMiddleware", "router">>

(* C9: fixed order with short-circuit.  The layers are entered in the order
   security headers, rate limiter, CORS, logger, authenticator, route
   handler, each only after the one before it handed the request on; the
   layers are left in the reverse order, and only once no further layer is
   entered; a request the limiter rejects enters neither the logger nor the
   authenticator nor the handler; a request the authenticator answers does
   not enter the handler. *)
C9_PipelineOrder ==
    \A s \in Slots :
        LET entered == req[s].entered
            exited == req[s].exited
        IN  /\ Len(entered) <= Len(LayerOrder)
            /\ entered = SubSeq(LayerOrder, 1, Len(entered))
            /\ Len(exited) <= Len(entered)
            /\ \A i \in 1..Len(exited) : exited[i] = entered[Len(entered) + 1 - i]
            /\ exited # <<>> => req[s].pc \in {"out", "done"}
            /\ req[s].pc = "done" => (Len(exited) = Len(entered) /\ entered # <<>>)
            /\ req[s].branch \in {"minute", "hour"} =>
                    entered = SubSeq(LayerOrder, 1, 2)
            /\ (AuthDecided(s) /\ ~AuthPassed(s)) => entered = SubSeq(LayerOrder, 1, 5)

\* a request rejected by the limiter has left the stack through the two
\* layers it entered
C9_Witness ==
    \E s \in Slots :
        /\ req[s].pc = "done"
        /\ req[s].branch = "minute"
        /\ req[s].exited = <<"RateLimitMiddleware", "SecurityHeadersMiddleware">>

(* C10: every response that leaves the stack, a rate-limit rejection
   included, carries the five security headers and no Server header. *)
C10_AlwaysDecorated ==
    \A s \in Slots : req[s].pc = "done" =>
        /\ req[s].result = "response"
        /\ SecurityHeaders \subseteq DOMAIN req[s].resp_headers
        /\ "server" \notin DOMAIN req[s].resp_headers

(* C7: remaining-quota headers.  A response to an admitted request leaves
   the limiter with X-RateLimit-Remaining-Minute = RATE_LIMIT_PER_MINUTE - c
   and X-RateLimit-Remaining-Hour = RATE_LIMIT_PER_HOUR - c', where c and c'
   count the client's admitted requests in the minute and the hour window at
   the moment of admission, this request included; neither value is
   negative, also while other requests of the client are being served. *)
C7_RemainingHeaders ==
    \A s \in Slots : (Admitted(s) /\ LeftLimiter(s)) =>
        LET upto == SubSeq(DictGet(admittedAt, ClientOf(s)), 1, req[s].nth)
            c_min == CountIn(upto, req[s].at, 60)
            c_hour == CountIn(upto, req[s].at, 3600)
            minute == Header(s, "X-RateLimit-Remaining-Minute")
            hour == Header(s, "X-RateLimit-Remaining-Hour")
        IN  /\ minute = IntToStr(settings.RATE_LIMIT_PER_MINUTE - c_min)
            /\ hour = IntToStr(settings.RATE_LIMIT_PER_HOUR - c_hour)
            /\ Head(minute) # "-"
            /\ Head(hour) # "-"

\* the response that shows 0 remaining has left the limiter while an earlier
\* admitted request of the same client is still being served
C7_Witness ==
    \E s \in Slots : \E o \in Slots \ {s} :
        /\ Admitted(s) /\ LeftLimiter(s)
        /\ Header(s, "X-RateLimit-Remaining-Minute") = <<"0">>
        /\ Admitted(o) /\ req[o].pc \in {"in", "out"}
        /\ ClientOf(o) = ClientOf(s)
        /\ req[o].nth < req[s].nth

-----------------------------------------------------------------------------
(* Properties of the logger *)

\* the logger has written its start line for the request in slot s
LogStarted(s) ==
    \E i \in 1..Len(req[s].log) : req[s].log[i].line = "Request"

(* C11: the logger always completes.  Every request for which the logger
   wrote its start line has, once it has left the stack, a completion line
   with the status in the log and the X-Process-Time header on what goes out,
   also when the authenticator or the route handler raised an error. *)
C11_LoggerCompletes ==
    \A s \in Slots : (req[s].pc = "done" /\ LogStarted(s)) =>
        /\ \E i \in 1..Len(req[s].log) : req[s].log[i].line = "Response"
        /\ "X-Process-Time" \in DOMAIN req[s].resp_headers

-----------------------------------------------------------------------------
(* Properties of the limiter under concurrency *)

\* the request in slot s is being served by the layers inside the limiter
InsideLimiter(s) ==
    /\ req[s].pc \in {"in", "out"}
    /\ Has(req[s].entered, "RateLimitMiddleware")
    /\ ~Has(req[s].exited, "RateLimitMiddleware")

(* C12: check-then-append is atomic.  While requests of one client are
   served concurrently, interleaved at every point where a request can be
   suspended, no admitted timestamp is lost: the client's stored minute
   (hour) sequence holds exactly its admissions of the last 60 (3600)
   seconds that the history records; and no window of 60 (3600) seconds
   ever holds more admissions than RATE_LIMIT_PER_MINUTE
   (RATE_LIMIT_PER_HOUR). *)
C12_AtomicCheckAppend ==
    \A c \in DOMAIN admittedAt :
        LET h == admittedAt[c]
        IN  /\ SelectTs(DictGet(requests_per_minute, c), now - 60) = SelectTs(h, now - 60)
            /\ SelectTs(DictGet(requests_per_hour, c), now - 3600) = SelectTs(h, now - 3600)
            /\ \A k \in 1..Len(h) :
                /\ CountIn(h, h[k], 60) <= settings.RATE_LIMIT_PER_MINUTE
                /\ CountIn(h, h[k], 3600) <= settings.RATE_LIMIT_PER_HOUR

\* two requests of one client admitted at the same instant are both being
\* served, both timestamps are stored, and a sweep has run since start-up
C12_Witness ==
    \E s \in Slots : \E o \in Slots \ {s} :
        /\ Admitted(s) /\ InsideLimiter(s)
        /\ Admitted(o) /\ InsideLimiter(o)
        /\ ClientOf(s) = ClientOf(o)
        /\ req[s].at = req[o].at
        /\ last_cleanup > 0
        /\ DictGet(requests_per_minute, ClientOf(s)) = <<req[s].at, req[s].at>>

(* C13: the limiter disabled.  While RATE_LIMIT_ENABLED is off no step
   changes the limiter's state (no client entry is created, no timestamp is
   appended or pruned, no sweep runs, last_cleanup stays), and every request
   that reaches the limiter is handed to the inner chain, however many
   requests its client has sent before. *)
C13_Disabled ==
    [][~settings.RATE_LIMIT_ENABLED =>
        /\ UNCHANGED limiterState
        /\ \A s \in Slots :
            (AtLayer(s, "in", "RateLimitMiddleware") /\ req'[s] # req[s]) =>
                /\ req'[s].pc = "in"
                /\ req'[s].depth = req[s].depth + 1
                /\ req'[s].result = "none"]_vars

\* the fourth request of a client in the same minute, with limits 2 and 3,
\* has gone through the disabled limiter and found no state left behind
C13_Witness ==
    \E s \in Slots :
        /\ ~settings.RATE_LIMIT_ENABLED
        /\ arrivals = 4
        /\ arrivals > settings.RATE_LIMIT_PER_HOUR
        /\ req[s].path \notin ExcludedPaths
        /\ req[s].branch = "disabled"
        /\ Has(req[s].entered, "router")
        /\ requests_per_minute = EmptyDict
        /\ requests_per_hour = EmptyDict
        /\ last_cleanup = 0

-----------------------------------------------------------------------------
(* Properties of the header lookup *)

\* two header names that differ in letter case only
SameName(a, b) ==
    /\ Len(a) = Len(b)
    /\ \A i \in 1..Len(a) : LowerChar(a[i]) = LowerChar(b[i])

\* the value the request in slot s carries under the name, in any letter
\* case: that of the first such header, empty when there is none
Presented(s, name) ==
    LET hits == {i \in 1..Len(req[s].headers) : SameName(req[s].headers[i].name, name)}
    IN  IF hits = {} THEN <<>>
        ELSE req[s].headers[CHOOSE i \in hits : \A j \in hits : i <= j].value

\* the key the request presents: under the configured name, or else under
\* the alias x-api-key
PresentedKey(s) ==
    IF Presented(s, settings.API_KEY_HEADER) # <<>>
    THEN Presented(s, settings.API_KEY_HEADER)
    ELSE Presented(s, <<"x","-","a","p","i","-","k","e","y">>)

(* C14: the header lookup is case-insensitive with a fixed alias.  On a path
   that is not excluded and with a secret that is not blank, the request is
   let through exactly when it presents the correct key under the configured
   header name in any letter case or, the configured name carrying no value,
   under the alias x-api-key in any letter case, whether or not the
   configured name is X-API-Key; a wrong key gives 403 and no key 401.  With
   the secret abc123, `X-API-Key: abc123` and `x-api-key: abc123` pass,
   `X-API-Key: wrong` gives 403 and a request without such a header 401. *)
C14_HeaderLookup ==
    \A s \in Slots :
        (AuthDecided(s) /\ req[s].path \notin ExcludedPaths /\ ~SecretBlank) =>
            LET key == PresentedKey(s)
                hs == req[s].headers
            IN  /\ AuthPassed(s) <=> (key # <<>> /\ Strip(key) = Strip(settings.API_KEY))
                /\ AuthAnswered(s, 403) <=> (key # <<>> /\ Strip(key) # Strip(settings.API_KEY))
                /\ AuthAnswered(s, 401) <=> key = <<>>
                /\ settings.API_KEY = <<"a","b","c","1","2","3">> =>
                    /\ hs = ApiKeyHeader(X_API_Key, <<"a","b","c","1","2","3">>) => AuthPassed(s)
                    /\ hs = ApiKeyHeader(x_api_key, <<"a","b","c","1","2","3">>) => AuthPassed(s)
                    /\ hs = ApiKeyHeader(X_API_Key, <<"w","r","o","n","g">>) => AuthAnswered(s, 403)
                    /\ hs = <<>> => AuthAnswered(s, 401)
                    /\ hs = ApiKeyHeader(Authorization, <<"a","b","c","1","2","3">>) =>
                            AuthAnswered(s, 401)

\* the configured name is X-Token, it arrives empty, and the key under
\* X-API-KEY is accepted
C14_Witness ==
    \E s \in Slots :
        /\ Has(req[s].entered, "router")
        /\ settings.API_KEY_HEADER = X_Token
        /\ req[s].headers = ApiKeyHeader(X_Token, <<>>) \o ApiKeyHeader(X_API_KEY, Secret)

-----------------------------------------------------------------------------
(* Properties of the authenticator across requests *)

(* C15: authentication is stateless and deterministic.  Two requests with
   the same path and the same headers get the same decision from the
   authenticator, whatever was served in between and whatever the limiter
   holds: both are let through, or both are answered with the same status,
   the same body and the same challenge; a request with the valid key that
   the limiter admitted is let through, however many attempts failed before. *)
C15_Deterministic ==
    \A s \in Slots : \A o \in Slots \ {s} :
        (/\ AuthDecided(s) /\ AuthDecided(o)
         /\ req[s].path = req[o].path
         /\ req[s].headers = req[o].headers) =>
            /\ AuthPassed(s) <=> AuthPassed(o)
            /\ ~AuthPassed(s) =>
                    /\ req[s].result = "response" /\ req[o].result = "response"
                    /\ req[s].status = req[o].status
                    /\ req[s].detail = req[o].detail
                    /\ Header(s, "WWW-Authenticate") = Header(o, "WWW-Authenticate")
            /\ req[s].headers = ApiKeyHeader(X_API_Key, settings.API_KEY) => AuthPassed(s)

\* the client's first request, with a wrong key, was answered 403 and is
\* held; its third request that reached the authenticator carries the same
\* key and is answered 403
C15_Witness ==
    \E s \in Slots : \E o \in Slots \ {s} :
        /\ req[s].pc = "done" /\ AuthAnswered(s, 403) /\ req[s].nth = 1
        /\ req[s].headers = ApiKeyHeader(X_API_Key, WrongKey)
        /\ AuthAnswered(o, 403) /\ req[o].nth = 3
        /\ req[o].headers = req[s].headers
        /\ req[o].path = req[s].path

-----------------------------------------------------------------------------
(* Properties of what the limiter stores *)

\* a is what is left of b after dropping entries from its front, all of them
\* older than the window at instant t
PrunedFrom(a, b, t, window) ==
    /\ Len(a) <= Len(b)
    /\ a = SubSeq(b, Len(b) - Len(a) + 1, Len(b))
    /\ \A i \in 1..(Len(b) - Len(a)) : b[i] <= t - window

(* C16: count on admit.  The step in which the limiter rejects a request,
   at minute or at hour scope, appends nothing to any stored sequence: each
   sequence is what it was, less entries that have left the window; a
   rejection at hour scope leaves the minute sequence so as well.  The step
   in which it admits a request at instant t stores, for the request's
   client, the entries still in each window followed by t, and appends
   nothing for any other client. *)
C16_CountOnAdmit ==
    [][\A s \in Slots :
        (AtLayer(s, "in", "RateLimitMiddleware") /\ req'[s] # req[s]
            /\ req'[s].branch \in {"minute", "hour", "admitted"}) =>
            LET c == req'[s].client_ip
                t == req'[s].at
                others(d) == IF req'[s].branch = "admitted" THEN DOMAIN d \ {c} ELSE DOMAIN d
            IN  /\ \A k \in others(requests_per_minute') :
                    PrunedFrom(requests_per_minute'[k], DictGet(requests_per_minute, k), t, 60)
                /\ \A k \in others(requests_per_hour') :
                    PrunedFrom(requests_per_hour'[k], DictGet(requests_per_hour, k), t, 3600)
                /\ req'[s].branch = "admitted" =>
                    /\ c \in DOMAIN requests_per_minute' /\ c \in DOMAIN requests_per_hour'
                    /\ Len(requests_per_minute'[c]) >= 1 /\ Len(requests_per_hour'[c]) >= 1
                    /\ requests_per_minute'[c][Len(requests_per_minute'[c])] = t
                    /\ requests_per_hour'[c][Len(requests_per_hour'[c])] = t
                    /\ PrunedFrom(SubSeq(requests_per_minute'[c], 1, Len(requests_per_minute'[c]) - 1),
                                  DictGet(requests_per_minute, c), t, 60)
                    /\ PrunedFrom(SubSeq(requests_per_hour'[c], 1, Len(requests_per_hour'[c]) - 1),
                                  DictGet(requests_per_hour, c), t, 3600)]_vars

\* a request was turned away at hour scope at an instant that neither of its
\* client's sequences holds, the minute sequence being in use
C16_Witness ==
    \E s \in Slots :
        /\ req[s].branch = "hour"
        /\ req[s].pc = "done"
        /\ DictGet(requests_per_minute, ClientOf(s)) # <<>>
        /\ ~Has(DictGet(requests_per_minute, ClientOf(s)), req[s].at)
        /\ ~Has(DictGet(requests_per_hour, ClientOf(s)), req[s].at)

-----------------------------------------------------------------------------
(* Properties of the exclusion list *)

\* the limiter has dealt with the request in slot s
LimiterDecided(s) == Has(req[s].entered, "RateLimitMiddleware")

(* C17: exclusion is by exact path.  A request whose path is one of /,
   /docs, /redoc, /openapi.json and /api/v1/health is bypassed by the limiter
   and let through by the authenticator; a request with any other path, /docs/x
   and /api/v1/health/ included, is counted or rejected by the limiter and is
   let through by the authenticator only with the key: the two gates exclude
   the same paths. *)
C17_ExactPath ==
    \A s \in Slots :
        LET excluded == req[s].path \in
                {"/", "/docs", "/redoc", "/openapi.json", "/api/v1/health"}
        IN  /\ LimiterDecided(s) => (req[s].branch = "skip" <=> excluded)
            /\ (LimiterDecided(s) /\ ~excluded) =>
                    req[s].branch \in {"minute", "hour", "admitted"}
            /\ (AuthDecided(s) /\ excluded) => AuthPassed(s)
            /\ (AuthDecided(s) /\ ~excluded) =>
                    (AuthPassed(s) <=> req[s].headers = ValidKey)
            /\ (AuthDecided(s) /\ ~excluded /\ req[s].headers = <<>>) =>
                    AuthAnswered(s, 401)

\* with one request a minute allowed and one counted, the client's second
\* request, for /api/v1/health/, is rejected by the limiter
C17_Witness ==
    \E s \in Slots :
        /\ req[s].path = "/api/v1/health/"
        /\ req[s].branch = "minute"
        /\ req[s].nth = 1
        /\ arrivals = 2

-----------------------------------------------------------------------------
(* Properties of the sweep *)

\* the clients the limiter holds
Held(rpm, rph) == DOMAIN rpm \cup DOMAIN rph

(* C18: the periodic sweep.  last_cleanup changes only in a step of the
   enabled limiter on a request whose path is not bypassed, and only to an
   instant at least 300 seconds after its former value, so that two sweeps
   are at least 300 seconds apart.  After such a step no stored timestamp is
   older than its window, counted from the instant of the sweep, and every
   client the limiter still holds has a timestamp in its window: the clients
   with both sequences empty are gone. *)
C18_Sweep ==
    [][last_cleanup' # last_cleanup =>
        /\ last_cleanup' - last_cleanup >= 300
        /\ settings.RATE_LIMIT_ENABLED
        /\ \E s \in Slots :
            /\ AtLayer(s, "in", "RateLimitMiddleware")
            /\ req'[s] # req[s]
            /\ req[s].path \notin ExcludedPaths
            /\ req'[s].branch \in {"minute", "hour", "admitted"}
            /\ \A o \in Slots \ {s} : req'[o] = req[o]
        /\ \A k \in DOMAIN requests_per_minute' :
            \A i \in 1..Len(requests_per_minute'[k]) :
                requests_per_minute'[k][i] > last_cleanup' - 60
        /\ \A k \in DOMAIN requests_per_hour' :
            \A i \in 1..Len(requests_per_hour'[k]) :
                requests_per_hour'[k][i] > last_cleanup' - 3600
        /\ \A k \in Held(requests_per_minute', requests_per_hour') :
            \/ DictGet(requests_per_minute', k) # <<>>
            \/ DictGet(requests_per_hour', k) # <<>>]_vars

\* a client served at start-up and silent since is gone after the sweep that
\* a request of another client set off an hour later
C18_Witness ==
    /\ last_cleanup = 3600
    /\ HostA \in DOMAIN admittedAt
    /\ HostA \notin Held(requests_per_minute, requests_per_hour)
    /\ HostB \in DOMAIN requests_per_hour

-----------------------------------------------------------------------------
(* Properties of the client identifier *)

\* the first comma-separated value of v, without the white space around it
FirstValue(v) ==
    LET commas == {i \in 1..Len(v) : v[i] = ","}
        last == IF commas = {} THEN Len(v)
                ELSE (CHOOSE i \in commas : \A j \in commas : i <= j) - 1
        inked == {i \in 1..last : v[i] \notin {" ", "\t", "\n"}}
    IN  IF inked = {} THEN <<>>
        ELSE SubSeq(v, CHOOSE i \in inked : \A j \in inked : i <= j,
                       CHOOSE i \in inked : \A j \in inked : i >= j)

\* the identifier the claim gives the request in slot s
DerivedId(s) ==
    LET forwarded == Presented(s, <<"X","-","F","o","r","w","a","r","d","e","d","-","F","o","r">>)
        real_ip == Presented(s, <<"X","-","R","e","a","l","-","I","P">>)
    IN  IF forwarded # <<>> THEN FirstValue(forwarded)
        ELSE IF real_ip # <<>> THEN real_ip
        ELSE IF req[s].client # <<"None">> THEN req[s].client
        ELSE <<"u","n","k","n","o","w","n">>

(* C19: the client identifier.  The limiter counts a request under the
   trimmed first comma-separated value of its X-Forwarded-For header when the
   header carries a value, else under the value of X-Real-IP when it carries
   one, else under the address of the transport peer, else under "unknown":
   the request is checked against, and when admitted added to, the
   admissions of the requests with the same identifier and no others. *)
C19_ClientId ==
    \A s \in Slots : Limited(s) =>
        LET id == DerivedId(s)
            h == DictGet(admittedAt, id)
            own == IF Admitted(s) THEN 1 ELSE 0
            prior == SubSeq(h, 1, req[s].nth - own)
        IN  /\ ClientOf(s) = id
            /\ req[s].nth <= Len(h)
            /\ Admitted(s) => h[req[s].nth] = req[s].at
            /\ Len(req[s].minute_requests) = CountIn(prior, req[s].at, 60) + own
            /\ req[s].branch = "minute" <=>
                    CountIn(prior, req[s].at, 60) >= settings.RATE_LIMIT_PER_MINUTE

\* a request without a peer address, forwarded for " 10.0.0.1 , 10.0.0.2"
\* and with an X-Real-IP of 10.0.0.2, is rejected because of the one request
\* counted for 10.0.0.1 before it
C19_Witness ==
    \E s \in Slots :
        /\ req[s].client = None
        /\ req[s].headers =
                ForwardedHeader(x_forwarded_for, <<" ">> \o HostA \o <<" ", ",", " ">> \o HostB)
                    \o ForwardedHeader(X_Real_IP, HostB)
        /\ req[s].branch = "minute"
        /\ DOMAIN admittedAt = {HostA}
        /\ arrivals = 2

-----------------------------------------------------------------------------
(* Properties of the limiter across clients *)

\* the entries of the client's stored sequence that count at instant t
Live(d, k, t, window) ==
    LET stored == DictGet(d, k)
        kept == {i \in 1..Len(stored) : stored[i] > t - window}
    IN  [i \in 1..Cardinality(kept) |-> stored[Len(stored) - Cardinality(kept) + i]]

(* C20: the clients are independent.  What the limiter decides on a request
   of a client, and the remaining counts it reports, follow from the
   admissions of that client alone, as they would had no other client sent
   anything; and a step of the limiter on a request of one client, a step
   that sweeps included, changes for no other client the admissions recorded
   or the stored entries that still count. *)
C20_Independence ==
    /\ [](\A s \in Slots : Limited(s) =>
            LET own == PriorOf(s)
                m == CountIn(own, req[s].at, 60)
                h == CountIn(own, req[s].at, 3600)
            IN  /\ ClientOf(s) = req[s].client
                /\ req[s].branch =
                        IF m >= settings.RATE_LIMIT_PER_MINUTE THEN "minute"
                        ELSE IF h >= settings.RATE_LIMIT_PER_HOUR THEN "hour"
                        ELSE "admitted"
                /\ (Admitted(s) /\ LeftLimiter(s)) =>
                    /\ Header(s, "X-RateLimit-Remaining-Minute") =
                            IntToStr(settings.RATE_LIMIT_PER_MINUTE - (m + 1))
                    /\ Header(s, "X-RateLimit-Remaining-Hour") =
                            IntToStr(settings.RATE_LIMIT_PER_HOUR - (h + 1)))
    /\ [][\A s \in Slots :
            (AtLayer(s, "in", "RateLimitMiddleware") /\ req'[s] # req[s]) =>
                \A k \in {HostA, HostB} \ {req[s].client} :
                    /\ DictGet(admittedAt', k) = DictGet(admittedAt, k)
                    /\ Live(requests_per_minute', k, now', 60) =
                            Live(requests_per_minute, k, now', 60)
                    /\ Live(requests_per_hour', k, now', 3600) =
                            Live(requests_per_hour, k, now', 3600)]_vars

\* 10.0.0.1 has used up its minute at instant 300, where a sweep ran, and the
\* request of 10.0.0.2 at that instant is admitted and shows what its own
\* admission at instant 60 leaves
C20_Witness ==
    \E s \in Slots :
        /\ ClientOf(s) = HostB
        /\ Admitted(s) /\ LeftLimiter(s)
        /\ req[s].at = 300
        /\ last_cleanup = 300
        /\ PriorOf(s) = <<60>>
        /\ InWindow(HostA, 300, 60) >= settings.RATE_LIMIT_PER_MINUTE
        /\ Header(s, "X-RateLimit-Remaining-Hour") =
                IntToStr(settings.RATE_LIMIT_PER_HOUR - 2)

-----------------------------------------------------------------------------
(* Properties of the pipeline as a whole *)

RateLimitHeaders ==
    {"X-RateLimit-Limit-Minute", "X-RateLimit-Remaining-Minute",
     "X-RateLimit-Limit-Hour", "X-RateLimit-Remaining-Hour"}

\* the headers the middlewares set on a response
PipelineHeaders == SecurityHeaders \cup RateLimitHeaders \cup {"X-Process-Time"}

\* the route handler has answered the request in slot s
HandlerAnswered(s) ==
    /\ Has(req[s].entered, "router")
    /\ req[s].result = "response"

\* a middleware has answered or raised for the request in slot s
PipelineAnswered(s) ==
    /\ req[s].pc \in {"out", "done"}
    /\ ~Has(req[s].entered, "router")

(* C21: pass-through on allow.  Once the route handler has answered, no
   middleware changes the status code or the body on the way out, every
   header the handler set is kept with its value, and the only headers that
   appear are the four X-RateLimit-* headers, X-Process-Time and the security
   headers; the response of an admitted request leaves the stack with all of
   them, the two limit headers showing the configured limits.  What the
   middlewares produce themselves is 429 from the limiter and 401, 403 and
   the configuration 500 from the authenticator, nothing else. *)
C21_PassThrough ==
    /\ [](\A s \in Slots :
            /\ (HandlerAnswered(s) /\ req[s].pc = "done" /\ Admitted(s)) =>
                /\ PipelineHeaders \subseteq DOMAIN req[s].resp_headers
                /\ Header(s, "X-RateLimit-Limit-Minute") =
                        IntToStr(settings.RATE_LIMIT_PER_MINUTE)
                /\ Header(s, "X-RateLimit-Limit-Hour") =
                        IntToStr(settings.RATE_LIMIT_PER_HOUR)
            /\ PipelineAnswered(s) =>
                /\ req[s].status \in {HTTP_401_UNAUTHORIZED, HTTP_403_FORBIDDEN,
                                      HTTP_429_TOO_MANY_REQUESTS,
                                      HTTP_500_INTERNAL_SERVER_ERROR}
                /\ req[s].status = HTTP_429_TOO_MANY_REQUESTS <=>
                        req[s].branch \in {"minute", "hour"}
                /\ req[s].status # HTTP_429_TOO_MANY_REQUESTS => AuthDecided(s)
                /\ req[s].status = HTTP_500_INTERNAL_SERVER_ERROR =>
                        req[s].detail # "handler")
    /\ [][\A s \in Slots :
            (HandlerAnswered(s) /\ req[s].pc = "out") =>
                /\ req'[s].result = "response"
                /\ req'[s].status = req[s].status
                /\ req'[s].detail = req[s].detail
                /\ \A h \in DOMAIN req[s].resp_headers :
                        /\ h \in DOMAIN req'[s].resp_headers
                        /\ req'[s].resp_headers[h] = req[s].resp_headers[h]
                /\ (DOMAIN req'[s].resp_headers \ DOMAIN req[s].resp_headers)
                        \subseteq PipelineHeaders]_vars

\* a 404 of the handler, sent with a content type by an admitted and
\* authenticated request, has left the stack as 404 with the handler's body
\* and content type and the middlewares' headers
C21_Witness ==
    \E s \in Slots :
        /\ req[s].pc = "done"
        /\ HandlerAnswered(s) /\ Admitted(s)
        /\ req[s].path \notin ExcludedPaths
        /\ req[s].status = 404
        /\ req[s].detail = "handler"
        /\ DOMAIN req[s].resp_headers = PipelineHeaders \cup {"content-type"}
        /\ Header(s, "content-type") = <<"application/json">>

\* the last element of a stored list, None when there is none
Last(seq) == IF seq = <<>> THEN None ELSE seq[Len(seq)]

\* the authenticator has answered the request in slot s itself
AuthRefused(s) ==
    \/ AuthAnswered(s, HTTP_401_UNAUTHORIZED)
    \/ AuthAnswered(s, HTTP_403_FORBIDDEN)
    \/ AuthAnswered(s, HTTP_500_INTERNAL_SERVER_ERROR)

(* C22: failed authentication consumes quota.  With the limiter enabled,
   every request to a path that is not excluded on which the authenticator
   decides, whatever the verdict, has been admitted by the limiter before:
   its instant is the newest entry of both of the client's stored lists, it
   is one of at most RATE_LIMIT_PER_MINUTE admitted requests of the client in
   the 60 seconds up to it and one of at most RATE_LIMIT_PER_HOUR in the 3600
   seconds up to it, and a 401, 403 or 500 of the authenticator leaves the
   limiter with the four X-RateLimit-* headers, the remaining counts with
   this request counted. *)
C22_FailedAuthCounts ==
    \A s \in Slots :
        (AuthDecided(s) /\ req[s].path \notin ExcludedPaths) =>
            LET upto == SubSeq(DictGet(admittedAt, ClientOf(s)), 1, req[s].nth)
            IN  /\ Admitted(s)
                /\ req[s].nth >= 1
                /\ Last(upto) = req[s].at
                /\ Last(DictGet(requests_per_minute, ClientOf(s))) = req[s].at
                /\ Last(DictGet(requests_per_hour, ClientOf(s))) = req[s].at
                /\ CountIn(upto, req[s].at, 60) <= settings.RATE_LIMIT_PER_MINUTE
                /\ CountIn(upto, req[s].at, 3600) <= settings.RATE_LIMIT_PER_HOUR
                /\ (AuthRefused(s) /\ LeftLimiter(s)) =>
                    /\ RateLimitHeaders \subseteq DOMAIN req[s].resp_headers
                    /\ Header(s, "X-RateLimit-Remaining-Minute") =
                            IntToStr(settings.RATE_LIMIT_PER_MINUTE
                                        - CountIn(upto, req[s].at, 60))
                    /\ Header(s, "X-RateLimit-Remaining-Hour") =
                            IntToStr(settings.RATE_LIMIT_PER_HOUR
                                        - CountIn(upto, req[s].at, 3600))

\* the second request without a key within one minute: answered 401, it has
\* used up the minute, and the response shows 0 remaining
C22_Witness ==
    \E s \in Slots :
        /\ AuthAnswered(s, HTTP_401_UNAUTHORIZED)
        /\ req[s].pc = "done"
        /\ req[s].nth = 2
        /\ CountIn(DictGet(admittedAt, ClientOf(s)), req[s].at, 60) = 2
        /\ Len(DictGet(requests_per_minute, ClientOf(s))) = 2
        /\ Header(s, "X-RateLimit-Remaining-Minute") = <<"0">>

-----------------------------------------------------------------------------
(* The limiter without its sweep *)

RECURSIVE NeverSwept(_, _)
\* the list a limiter that never sweeps holds for a client whose admitted
\* requests came at the instants h: each admission prunes the stored list
\* with its own cutoff and appends its instant, nothing else rewrites it
NeverSwept(h, window) ==
    IF h = <<>> THEN <<>>
    ELSE LET t == h[Len(h)]
         IN  Append(SelectTs(NeverSwept(SubSeq(h, 1, Len(h) - 1), window), t - window), t)

\* the verdict of the two checks on two pruned lists
VerdictOn(minute_requests, hour_requests) ==
    IF Len(minute_requests) >= settings.RATE_LIMIT_PER_MINUTE THEN "minute"
    ELSE IF Len(hour_requests) >= settings.RATE_LIMIT_PER_HOUR THEN "hour"
    ELSE "admitted"

(* C23: the sweep is observationally transparent.  Every decision of the
   limiter is the decision a limiter without the sweep takes on the same
   request after the same earlier requests: the pruned minute and hour lists
   it decides on are the ones the never-swept lists give at that instant, so
   the verdict is the same, and for an admitted request the lists its
   remaining-quota headers are computed from are the same. *)
C23_SweepTransparent ==
    \A s \in Slots : Limited(s) =>
        LET ns_minute == SelectTs(NeverSwept(PriorOf(s), 60), req[s].at - 60)
            ns_hour == SelectTs(NeverSwept(PriorOf(s), 3600), req[s].at - 3600)
        IN  /\ req[s].branch = VerdictOn(ns_minute, ns_hour)
            /\ req[s].branch \in {"minute", "hour"} =>
                    req[s].minute_requests = ns_minute
            /\ req[s].branch = "hour" => req[s].hour_requests = ns_hour
            /\ Admitted(s) =>
                /\ req[s].minute_requests = Append(ns_minute, req[s].at)
                /\ req[s].hour_requests = Append(ns_hour, req[s].at)

\* a request decided in the step that swept: the sweep has deleted the
\* client's minute entries, which the never-swept list still holds, and the
\* request is rejected for the hour all the same
C23_Witness ==
    \E s \in Slots :
        /\ req[s].branch = "hour"
        /\ req[s].at = 300
        /\ last_cleanup = 300
        /\ PriorOf(s) = <<1, 60>>
        /\ NeverSwept(PriorOf(s), 60) = <<1, 60>>
        /\ DictGet(requests_per_minute, ClientOf(s)) = <<>>
        /\ DictGet(requests_per_hour, ClientOf(s)) = <<1, 60>>

-----------------------------------------------------------------------------
(* The two stored sequences of a client *)

\* a is the end of b
SuffixOf(a, b) ==
    /\ Len(a) <= Len(b)
    /\ a = SubSeq(b, Len(b) - Len(a) + 1, Len(b))

Sorted(a) == \A i, j \in 1..Len(a) : i <= j => a[i] <= a[j]

\* the step is the admission of a request of client k
AdmitsClient(k) ==
    \E s \in Slots :
        /\ AtLayer(s, "in", "RateLimitMiddleware")
        /\ req'[s] # req[s]
        /\ req'[s].branch = "admitted"
        /\ req'[s].client_ip = k

(* C24: window containment.  In every state and for every client the stored
   minute sequence is the end of the stored hour sequence and both are in
   non-decreasing order, so the minute count never exceeds the hour count.
   A stored sequence changes only in the admission of a request of its
   client, which appends the same instant to both sequences of that client,
   or in a step that sweeps. *)
C24_Containment ==
    /\ [](\A k \in Held(requests_per_minute, requests_per_hour) :
            LET minute == DictGet(requests_per_minute, k)
                hour == DictGet(requests_per_hour, k)
            IN  /\ SuffixOf(minute, hour)
                /\ Sorted(hour)
                /\ Sorted(minute)
                /\ Len(minute) <= Len(hour))
    /\ [][\A k \in Held(requests_per_minute, requests_per_hour)
                    \cup Held(requests_per_minute', requests_per_hour') :
            (\/ DictGet(requests_per_minute', k) # DictGet(requests_per_minute, k)
             \/ DictGet(requests_per_hour', k) # DictGet(requests_per_hour, k)) =>
                \/ /\ AdmitsClient(k)
                    /\ Last(DictGet(requests_per_minute', k)) = now'
                    /\ Last(DictGet(requests_per_hour', k)) = now'
                \/ last_cleanup' # last_cleanup]_vars

\* three admitted requests of a client, the last one a sweep interval after
\* the others: the minute sequence holds the last, the hour sequence all
C24_Witness ==
    \E k \in Held(requests_per_minute, requests_per_hour) :
        /\ DictGet(requests_per_minute, k) = <<300>>
        /\ DictGet(requests_per_hour, k) = <<1, 60, 300>>
        /\ last_cleanup = 300

-----------------------------------------------------------------------------
(* Properties of the database connection *)

\* the retry loop of connect has been entered
InLoop == call.attempt >= 1

\* the attempts of the call that have failed so far
FailedAttempts ==
    CASE call.pc \in {"sleeping", "raised"} -> call.attempt
      [] call.pc \in {"testing", "returned"} -> call.attempt - 1
      [] OTHER -> 0

(* C25: the retry protocol of connect(retries, delay).  The attempts are
   numbered 1, 2, ... and made one at a time, each begun at the call or after
   a wait; there are never more than `retries` of them.  Once the test query
   of an attempt has succeeded the call has returned and does nothing more.
   After the k-th failed attempt, k < retries, the call waits delay * k
   seconds, and these are all its waits; after the failed attempt number
   `retries` it raises the error of that attempt without another wait.  In
   lifespan(), which calls connect(3, 5), a call that returns lets the
   application start and a call that raises aborts the start-up. *)
C25_RetryProtocol ==
    /\ [](InLoop =>
            (/\ call.attempt <= call.retries
             /\ call.waits = [k \in 1..Len(call.waits) |-> call.delay * k]
             /\ Len(call.waits) =
                    IF call.pc = "raised" THEN call.retries - 1 ELSE FailedAttempts
             /\ (call.pc = "sleeping" => call.attempt < call.retries)
             /\ (call.pc = "returned" => call.tested = call.attempt)
             /\ (call.pc = "raised" =>
                    (/\ call.attempt = call.retries
                     /\ call.raised.attempt = call.retries
                     /\ call.raised = call.last_exception))
             /\ (call.pc # "raised" => call.raised = NoError)))
    /\ [](/\ (lifespan # "created" =>
                (call.retries = StartupRetries /\ call.delay = StartupDelay))
           /\ (lifespan \in {"yielded", "stopped"} => call.pc = "returned")
           /\ (lifespan = "failed" => call.pc = "raised"))
    /\ [][/\ (call'.attempt # call.attempt =>
                (/\ call'.attempt = call.attempt + 1
                 /\ call.pc \in {"idle", "sleeping"}))
           /\ (call.pc \in {"returned", "raised"} =>
                (/\ call' = call
                 /\ engine'.attempt = engine.attempt
                 /\ async_session_maker' = async_session_maker))
           /\ ((lifespan = "startup" /\ lifespan' # lifespan) =>
                lifespan' = IF call.pc = "raised" THEN "failed" ELSE "yielded")]_vars

\* start-up against a server that is down: three attempts, waits of 5 and
\* 10 seconds, the third attempt's error raised, the start-up aborted
C25_Witness ==
    /\ lifespan = "failed"
    /\ call.pc = "raised"
    /\ call.attempt = 3
    /\ call.waits = <<5, 10>>
    /\ call.raised = AttemptError(3, "SELECT 1")

\* the stored engine has passed the test query of the call, and the session
\* maker is bound to it
Connected ==
    /\ call.tested >= 1
    /\ engine.attempt = call.tested
    /\ async_session_maker.bind = call.tested

(* C26: the connection state.  get_session hands out a session only after
   a connect() call has returned; as long as connect has not been called, and
   after a connect that ended with all attempts failed, it raises
   RuntimeError "Database not connected. Call connect() first."; and when
   a connect() that was allowed at least one attempt has returned without
   raising, the database is connected. *)
C26_SessionWhenConnected ==
    /\ (got.kind = "AsyncSession" => (call.pc = "returned" /\ Connected))
    /\ (call.pc \in {"idle", "raised"} =>
            (/\ GetSessionResult.kind = "RuntimeError"
             /\ GetSessionResult.message =
                    "Database not connected. Call connect() first."))
    /\ ((call.pc = "returned" /\ call.retries >= 1) => Connected)

TypeOK ==
    /\ now \in Instants
    /\ arrivals \in 0..MaxRequests
    /\ \A s \in Slots : req[s].depth \in 0..Len(MiddlewareStack)

====
